---- MODULE Spec2Model ----
(***************************************************************************)
(* migrator-db: the migration runner (Up, Down, DownN), the state ledger   *)
(* (ensure, applied, last), the artifact loader (Load) and the three       *)
(* lockers (PostgresLocker, MySQLLocker, SQLiteLocker), run by several     *)
(* processes against one database.                                         *)
(*                                                                         *)
(* The database engine is the environment.  What the model takes from it:  *)
(*  - a transaction's writes are staged and become visible at Commit, all  *)
(*    together, or are dropped by Rollback (the README asks for scripts    *)
(*    that the engine can run in a transaction);                           *)
(*  - pg_try_advisory_lock answers at once; GET_LOCK(name, 10) waits up to *)
(*    its own 10 seconds; both locks belong to the session (l.conn);       *)
(*  - SQLite has one writer per database file ("file-level locking", as    *)
(*    the README says of SQLiteLocker): a write statement on a connection  *)
(*    succeeds only while no other connection has an open write            *)
(*    transaction, and fails with "database is locked" once its busy wait  *)
(*    ends.  db.Exec / db.Beginx take a pooled connection, never the one   *)
(*    that l.tx holds.                                                     *)
(***************************************************************************)
EXTENDS Integers, Sequences, FiniteSets, TLC

\* ------------------------------------------------------------------ bounds
NumProcs == 2
MaxVersion == 3
MaxCalls == 3
MaxFaults == 1
MaxLockerCalls == 5
MaxFiles == 3
MaxNames == 2
MaxClock == 3

Procs == 1..NumProcs
Versions == 1..MaxVersion
NoProc == 0

\* -------------------------------------------------------------- artifacts
\* A file of the directory: <version>_<name>.<kind>.sql with its content.
\* "ok" is a script the engine runs to its end, "bad" one that fails partway.
File(v, k, s) ==
    [name |-> 2 * v + (IF k = "up" THEN 1 ELSE 0), token |-> "int", version |-> v,
     ext |-> "sql", kind |-> k, readable |-> TRUE, sql |-> s]

\* SetupTestMigrations: every version with a valid up and a valid down file.
SetupTestMigrations == {File(v, k, "ok") : v \in Versions, k \in {"up", "down"}}

\* CreateInvalidMigration / a missing or failing down file, at one version.
WithDefect(v, d) ==
    CASE d = "bad_up" ->
           (SetupTestMigrations \ {File(v, "up", "ok")}) \cup {File(v, "up", "bad")}
      [] d = "bad_down" ->
           (SetupTestMigrations \ {File(v, "down", "ok")}) \cup {File(v, "down", "bad")}
      [] d = "no_down" ->
           SetupTestMigrations \ {File(v, "down", "ok")}

Dirs ==
    {SetupTestMigrations}
      \cup {WithDefect(v, d) : v \in Versions, d \in {"bad_up", "bad_down", "no_down"}}

Backends == {"postgres", "mysql", "sqlite3"}

\* Any directory of up to MaxFiles files: each file has a leading token that
\* is an integer or not, the suffix .sql or another, ".up." or ".down." or
\* neither in its name, and can be read or not; name is its place in the
\* order of the file names.
FileShapes ==
    [token : {"int"}, version : 1..2, ext : {"sql"}, kind : {"up", "down", "none"},
     readable : {TRUE}, sql : {"ok", "bad"}]
      \cup [token : {"text"}, version : {0}, ext : {"sql"},
            kind : {"up", "down", "none"}, readable : {TRUE}, sql : {"ok", "bad"}]
      \cup [token : {"int"}, version : 1..2, ext : {"sql", "other"},
            kind : {"up", "down"}, readable : BOOLEAN, sql : {"ok"}]
      \cup [token : {"text"}, version : {0}, ext : {"sql", "other"},
            kind : {"up", "none"}, readable : BOOLEAN, sql : {"ok"}]

Named(shape, n) ==
    [name |-> n, token |-> shape.token, version |-> shape.version,
     ext |-> shape.ext, kind |-> shape.kind, readable |-> shape.readable,
     sql |-> shape.sql]

\* The sorted sequence of a finite set of integers.
RECURSIVE SortedSeq(_)
SortedSeq(S) ==
    IF S = {} THEN <<>>
    ELSE LET m == CHOOSE x \in S : \A y \in S : x <= y
         IN  <<m>> \o SortedSeq(S \ {m})

SeqToSet(s) == {s[k] : k \in 1..Len(s)}

\* Atoi giving each name that has no integer a version of its own.
AtoiByName(f) == IF f.token = "int" THEN f.version ELSE 0 - f.name

\* strconv.Atoi(parts[0]) with its error dropped: 0 for a leading token that
\* is not an integer.
Atoi(f) == IF f.token = "int" THEN f.version ELSE 0

\* The files that reach the map of Load: those with the suffix .sql that
\* os.ReadFile can read.
Loadable(d) == {f \in d : f.ext = "sql" /\ f.readable}

\* The content Load leaves in the up or down half of version v: that of the
\* last such file in the order of os.ReadDir, "" when there is none.
FileSQL(d, v, k) ==
    LET fs == {f \in Loadable(d) : Atoi(f) = v /\ f.kind = k}
    IN  IF fs = {} THEN ""
        ELSE (CHOOSE f \in fs : \A g \in fs : g.name <= f.name).sql

\* os.ReadDir(dir): the entries sorted by file name.
RECURSIVE ReadDir(_)
ReadDir(d) ==
    IF d = {} THEN <<>>
    ELSE LET f == CHOOSE x \in d : \A y \in d : x.name <= y.name
         IN  <<f>> \o ReadDir(d \ {f})

\* The entry of the map with the content of f as its only half.
SetHalfOnly(entry, f) ==
    [Version |-> entry.Version, Name |-> entry.Name,
     UpSQL   |-> IF f.kind = "up" THEN f.sql ELSE "",
     DownSQL |-> IF f.kind = "down" THEN f.sql ELSE ""]

\* if strings.Contains(name, ".up.") { entry.UpSQL = ... } else if
\* strings.Contains(name, ".down.") { entry.DownSQL = ... }
SetHalf(entry, f) ==
    IF f.kind = "up" THEN [entry EXCEPT !.UpSQL = f.sql]
    ELSE IF f.kind = "down" THEN [entry EXCEPT !.DownSQL = f.sql]
    ELSE entry

\* The loop of Load over the files, filling the map m from Version to
\* Migration: files without .sql and files that cannot be read are passed.
\* The first file of a version makes the entry and gives it its Name (here
\* the file it was taken from).
RECURSIVE LoadLoop(_, _)
LoadLoop(files, m) ==
    IF files = <<>> THEN m
    ELSE LET f == Head(files)
             v == Atoi(f)
             entry == IF v \in DOMAIN m THEN m[v]
                      ELSE [Version |-> v, Name |-> f.name, UpSQL |-> "",
                            DownSQL |-> ""]
         IN  IF f.ext # "sql" \/ ~f.readable THEN LoadLoop(Tail(files), m)
             ELSE LoadLoop(Tail(files),
                           [x \in DOMAIN m \cup {v} |->
                               IF x = v THEN SetHalf(entry, f) ELSE m[x]])

\* Load with the sort comparison reversed: descending by Version.
LoadDescending(d) ==
    LET m  == LoadLoop(ReadDir(d), <<>>)
        vs == SortedSeq(DOMAIN m)
        n  == Len(vs)
    IN  [k \in 1..n |-> m[vs[n + 1 - k]]]

\* Load of a directory that can be read: the entries of the map, sorted
\* ascending by Version.
Load(d) ==
    LET m  == LoadLoop(ReadDir(d), <<>>)
        vs == SortedSeq(DOMAIN m)
    IN  [k \in 1..Len(vs) |-> m[vs[k]]]

LoadedVersions(d) == {Atoi(f) : f \in Loadable(d)}

\* ------------------------------------------------------------------ state
VARIABLES
    backend,        \* db.DriverName()
    dir,            \* the artifact directory (its files)
    dirReadable,    \* os.ReadDir(dir) succeeds
    dirExists,      \* the directory exists
    saved,          \* the copy of the database set aside to run DownN(1) on
                    \* what Down started from, and what Down returned
    now,            \* time.Now().Unix(), in seconds
    created,        \* history: the versions NewMigration gave, in call order
    ctxDone,        \* the context given to Lock is cancelled or past its deadline
    waited,         \* seconds the Lock in progress has waited in GET_LOCK
    ledgerTable,    \* schema_migrations exists
    ledger,         \* committed rows of schema_migrations (versions)
    schema,         \* versions whose apply script's effect is committed
    partial,        \* versions with a committed part of a failed script
    appliedAt,      \* the versions of the ledger by their applied_at, oldest first
    sessionLock,    \* holder of the advisory / named lock (postgres, mysql)
    lockTable,      \* sqlite: migration_lock exists
    lockRow,        \* sqlite: the committed sentinel row exists
    writer,         \* sqlite: the connection with the open write transaction
    pc,             \* each process's position
    op,             \* the operation called: "Up", "Down", "DownN"
    dryRun,
    steps,
    locked,         \* the locker's locked flag
    migrations,     \* the runner's local: Load(dir)
    appliedVersions,\* the runner's local: applied(db)
    idx,            \* the loop index
    tx,             \* the open migration transaction (staged writes)
    result,         \* the error the call returns ("OK" for nil)
    errVersion,     \* the version of the migration the call failed at (0: none)
    calls,          \* calls made so far, by all processes
    faults,         \* engine failures injected so far
    hist            \* history, set at a call: the process's previous call when
                    \* it was a non-dry-run Up or DownN that returned nil, with
                    \* the ledger that Up left / that DownN had found

dbVars   == <<ledgerTable, ledger, schema, partial, appliedAt>>
lockVars == <<sessionLock, lockTable, lockRow, writer>>
hostVars == <<backend, dir, dirReadable, now, created>>
envVars  == <<backend, dir, dirReadable, now, created, ctxDone, waited>>
runVars  == <<migrations, appliedVersions, idx, tx>>
callVars == <<op, dryRun, steps, calls>>
vars == <<backend, dir, dirReadable, now, created, ctxDone, waited, ledgerTable,
          ledger, schema, partial, appliedAt, sessionLock,
          lockTable, lockRow, writer, pc, op, dryRun, steps, locked,
          migrations, appliedVersions, idx, tx, result, errVersion, calls,
          faults, hist, saved, dirExists>>

NoConn == <<>>
LockConn(p) == <<p, "lock">>    \* the connection of l.tx
RunConn(p)  == <<p, "run">>     \* the pooled connection of db.Exec / db.Beginx

NoTx == [open |-> FALSE, version |-> 0, schemaAdd |-> {}, schemaDel |-> {},
         partialAdd |-> {}, ledgerAdd |-> {}, ledgerDel |-> {}]

\* No call of the process precedes, or the one before was not a successful
\* non-dry-run Up or DownN.
NoPrev == [prev |-> "none", before |-> {}]

\* No copy of the database is set aside.
NoSave == [phase |-> "none"]

\* The state before any call, whatever the directory holds.
Start ==
    /\ now = 1
    /\ created = <<>>
    /\ ctxDone = [p \in Procs |-> FALSE]
    /\ waited = [p \in Procs |-> 0]
    /\ ledgerTable = FALSE
    /\ ledger = {}
    /\ schema = {}
    /\ partial = {}
    /\ appliedAt = <<>>
    /\ sessionLock = NoProc
    /\ lockTable = FALSE
    /\ lockRow = FALSE
    /\ writer = NoConn
    /\ pc = [p \in Procs |-> "idle"]
    /\ op = [p \in Procs |-> "Up"]
    /\ dryRun = [p \in Procs |-> FALSE]
    /\ steps = [p \in Procs |-> 1]
    /\ locked = [p \in Procs |-> FALSE]
    /\ migrations = [p \in Procs |-> <<>>]
    /\ appliedVersions = [p \in Procs |-> <<>>]
    /\ idx = [p \in Procs |-> 0]
    /\ tx = [p \in Procs |-> NoTx]
    /\ result = [p \in Procs |-> "OK"]
    /\ errVersion = [p \in Procs |-> 0]
    /\ calls = 0
    /\ faults = 0
    /\ hist = [p \in Procs |-> NoPrev]
    /\ saved = NoSave

\* A directory of the test helpers, readable.
Init ==
    /\ backend \in Backends
    /\ dir \in Dirs
    /\ dirReadable = TRUE
    /\ dirExists = TRUE
    /\ Start


\* ---------------------------------------------------------------- helpers
\* last(db) with the order of its query reversed: the lowest version.
LastAscending(S) == CHOOSE x \in S : \A y \in S : x <= y

Max(S) == CHOOSE x \in S : \A y \in S : y <= x

\* A write statement on connection c: SQLite admits it only when no other
\* connection has the open write transaction.
CanWrite(c) == backend # "sqlite3" \/ writer = NoConn \/ writer = c

\* The connection that holds the write transaction after a write on c.
WriterAfter(c) == IF backend = "sqlite3" THEN c ELSE writer

\* ... and after c's transaction ended (Commit or Rollback).
WriterReleased(c) == IF writer = c THEN NoConn ELSE writer

\* The position after the lock step: Up goes on to ensure, Down and DownN
\* to Load.
AfterLock(p) == IF op[p] = "Up" THEN "ensure" ELSE "load"

\* A return whose Unlock runs on the success path only, not deferred.
LeaveUnlockOnSuccess(p, r, v) ==
    /\ result' = [result EXCEPT ![p] = r]
    /\ errVersion' = [errVersion EXCEPT ![p] = v]
    /\ pc' = [pc EXCEPT ![p] = IF locked[p] /\ r = "OK" THEN "unlock" ELSE "done"]

\* A return: the deferred locker.Unlock() runs when Lock had succeeded.
Leave(p, r, v) ==
    /\ result' = [result EXCEPT ![p] = r]
    /\ errVersion' = [errVersion EXCEPT ![p] = v]
    /\ pc' = [pc EXCEPT ![p] = IF locked[p] THEN "unlock" ELSE "done"]

\* The entry of a call without DownN's test `steps < 1`.
CallUnvalidated(p) ==
    /\ pc[p] \in {"idle", "done"}
    /\ calls < MaxCalls
    /\ \E o \in {"Up", "Down", "DownN"}, d \in BOOLEAN, n \in (0 - 1)..(MaxVersion + 1) :
         /\ (o # "DownN") => n = 1
         /\ op' = [op EXCEPT ![p] = o]
         /\ dryRun' = [dryRun EXCEPT ![p] = d]
         /\ steps' = [steps EXCEPT ![p] = n]
         /\ result' = [result EXCEPT ![p] = "OK"]
         /\ pc' = [pc EXCEPT ![p] =
                     IF ~d THEN "lock"
                     ELSE IF o = "Up" THEN "ensure" ELSE "load"]
    /\ calls' = calls + 1
    /\ errVersion' = [errVersion EXCEPT ![p] = 0]
    /\ locked' = [locked EXCEPT ![p] = FALSE]
    /\ migrations' = [migrations EXCEPT ![p] = <<>>]
    /\ appliedVersions' = [appliedVersions EXCEPT ![p] = <<>>]
    /\ idx' = [idx EXCEPT ![p] = 0]
    /\ tx' = [tx EXCEPT ![p] = NoTx]
    /\ hist' = [hist EXCEPT ![p] =
                   IF pc[p] # "done" \/ dryRun[p] \/ result[p] # "OK" THEN NoPrev
                   ELSE IF op[p] = "Up" THEN [prev |-> "Up", before |-> ledger]
                   ELSE IF op[p] = "DownN"
                   THEN [prev |-> "DownN", before |-> SeqToSet(appliedVersions[p])]
                   ELSE NoPrev]
    /\ ctxDone' = [ctxDone EXCEPT ![p] = FALSE]
    /\ saved' = NoSave
    /\ UNCHANGED <<hostVars, waited, dbVars, lockVars, faults, dirExists>>

\* ------------------------------------------------------------------ calls
\* The entry of operation o with dry-run flag d and n steps.  DownN returns
\* at once when steps < 1.
Enter(p, o, d, n) ==
    /\ pc[p] \in {"idle", "done"}
    /\ calls < MaxCalls
    /\ op' = [op EXCEPT ![p] = o]
    /\ dryRun' = [dryRun EXCEPT ![p] = d]
    /\ steps' = [steps EXCEPT ![p] = n]
    /\ result' = [result EXCEPT ![p] = IF n < 1 THEN "InvalidArgument" ELSE "OK"]
    /\ pc' = [pc EXCEPT ![p] =
                IF n < 1 THEN "done"
                ELSE IF ~d THEN "lock"
                ELSE IF o = "Up" THEN "ensure" ELSE "load"]
    /\ calls' = calls + 1
    /\ errVersion' = [errVersion EXCEPT ![p] = 0]
    /\ locked' = [locked EXCEPT ![p] = FALSE]
    /\ migrations' = [migrations EXCEPT ![p] = <<>>]
    /\ appliedVersions' = [appliedVersions EXCEPT ![p] = <<>>]
    /\ idx' = [idx EXCEPT ![p] = 0]
    /\ tx' = [tx EXCEPT ![p] = NoTx]
    /\ hist' = [hist EXCEPT ![p] =
                   IF pc[p] # "done" \/ dryRun[p] \/ result[p] # "OK" THEN NoPrev
                   ELSE IF op[p] = "Up" THEN [prev |-> "Up", before |-> ledger]
                   ELSE IF op[p] = "DownN"
                   THEN [prev |-> "DownN", before |-> SeqToSet(appliedVersions[p])]
                   ELSE NoPrev]
    /\ ctxDone' = [ctxDone EXCEPT ![p] = FALSE]
    /\ UNCHANGED <<hostVars, waited, faults, dirExists>>

\* A process calls Up(db, dir, dryRun), Down(db, dir, dryRun) or
\* DownN(db, dir, steps, dryRun).
Call(p) ==
    /\ \E o \in {"Up", "Down", "DownN"}, d \in BOOLEAN, n \in (0 - 1)..(MaxVersion + 1) :
         /\ (o # "DownN") => n = 1
         /\ Enter(p, o, d, n)
    /\ saved' = NoSave
    /\ UNCHANGED <<dbVars, lockVars>>

\* Down and DownN(1) from one database: Down(db, dir, d) is called and a
\* copy of the database as it is now is set aside ...
CompareDown(p) ==
    /\ calls + 1 < MaxCalls
    /\ \E d \in BOOLEAN :
         /\ Enter(p, "Down", d, 1)
         /\ saved' = [phase |-> "Down", dry |-> d, db |-> dbVars, lock |-> lockVars,
                      faults |-> faults]
    /\ UNCHANGED <<dbVars, lockVars>>

\* ... when Down has returned, what it returned and left is noted and the
\* copy is put back ...
Restore(p) ==
    /\ pc[p] = "done"
    /\ saved.phase = "Down"
    /\ saved' = [phase |-> "restored", dry |-> saved.dry, faults |-> saved.faults,
                 result |-> result[p], after |-> dbVars]
    /\ ledgerTable' = saved.db[1]
    /\ ledger' = saved.db[2]
    /\ schema' = saved.db[3]
    /\ partial' = saved.db[4]
    /\ appliedAt' = saved.db[5]
    /\ sessionLock' = saved.lock[1]
    /\ lockTable' = saved.lock[2]
    /\ lockRow' = saved.lock[3]
    /\ writer' = saved.lock[4]
    /\ UNCHANGED <<envVars, pc, locked, runVars, callVars, result, errVersion,
                   faults, hist, dirExists>>

\* ... and DownN(db, dir, 1, d) is called on it.
CompareDownN(p) ==
    /\ saved.phase = "restored"
    /\ Enter(p, "DownN", saved.dry, 1)
    /\ saved' = [saved EXCEPT !.phase = "DownN"]
    /\ UNCHANGED <<dbVars, lockVars>>

\* ---------------------------------------------------------------- lockers
\* The seconds MySQLLocker.Lock gives GET_LOCK, and those of the deadline
\* that Up, Down and DownN put on the context they give to Lock.
GetLockSeconds == 10
LockDeadlineSeconds == 30

LockPcs == {"lock", "sq_insert", "sq_update"}

\* The context of a call in progress is cancelled, or its deadline passes.
\* database/sql rolls back a transaction begun with BeginTx(ctx) when ctx is
\* done: l.tx of the SQLiteLocker.  The migration transaction comes from
\* db.Beginx(), with no context.
Cancel(p) ==
    /\ pc[p] \notin {"idle", "done"}
    /\ ~ctxDone[p]
    /\ ctxDone' = [ctxDone EXCEPT ![p] = TRUE]
    /\ writer' = WriterReleased(LockConn(p))
    /\ UNCHANGED <<hostVars, waited, dbVars, sessionLock, lockTable, lockRow, pc,
                   locked, runVars, callVars, result, errVersion, faults, hist, saved, dirExists>>

\* Lock that takes no notice of its context.
LockCanceledProceeds(p) ==
    /\ pc[p] \in LockPcs
    /\ ctxDone[p]
    /\ locked' = [locked EXCEPT ![p] = TRUE]
    /\ pc' = [pc EXCEPT ![p] = AfterLock(p)]
    /\ waited' = [waited EXCEPT ![p] = 0]
    /\ UNCHANGED <<hostVars, ctxDone, dbVars, lockVars, runVars, callVars, result,
                   errVersion, faults, hist, saved, dirExists>>

\* Lock with a context that is done: db.Conn(ctx), QueryRowContext,
\* ExecContext and BeginTx return the context's error, and so does the
\* select of SQLiteLocker.Lock; l.locked stays false.
LockCanceled(p) ==
    /\ pc[p] \in LockPcs
    /\ ctxDone[p]
    /\ Leave(p, "Canceled", 0)
    /\ waited' = [waited EXCEPT ![p] = 0]
    /\ UNCHANGED <<hostVars, ctxDone, dbVars, lockVars, locked, runVars, callVars,
                   faults, hist, saved, dirExists>>

\* PostgresLocker.Lock without the test of `acquired`.
PgLockIgnoresAcquired(p) ==
    /\ pc[p] = "lock" /\ backend = "postgres"
    /\ ~ctxDone[p]
    /\ sessionLock' = p
    /\ locked' = [locked EXCEPT ![p] = TRUE]
    /\ pc' = [pc EXCEPT ![p] = AfterLock(p)]
    /\ UNCHANGED <<envVars, dbVars, lockTable, lockRow, writer, runVars, callVars,
                   result, errVersion, faults, hist, saved, dirExists>>

\* PostgresLocker.Lock: SELECT pg_try_advisory_lock($1) on a dedicated
\* connection; acquired = false closes the connection and returns the error.
PgLock(p) ==
    /\ pc[p] = "lock" /\ backend = "postgres"
    /\ ~ctxDone[p]
    /\ IF sessionLock = NoProc
       THEN /\ sessionLock' = p
            /\ locked' = [locked EXCEPT ![p] = TRUE]
            /\ pc' = [pc EXCEPT ![p] = AfterLock(p)]
            /\ UNCHANGED <<result, errVersion>>
       ELSE /\ Leave(p, "LockUnavailable", 0)
            /\ UNCHANGED <<sessionLock, locked>>
    /\ UNCHANGED <<envVars, dbVars, lockTable, lockRow, writer, runVars, callVars,
                   faults, hist, saved, dirExists>>

\* PostgresLocker.Unlock without its test of l.locked: the unlock statement
\* releases the key whoever took it.
PgUnlockUnguarded(p) ==
    /\ pc[p] = "unlock" /\ backend = "postgres"
    /\ sessionLock' = NoProc
    /\ locked' = [locked EXCEPT ![p] = FALSE]
    /\ pc' = [pc EXCEPT ![p] = "done"]
    /\ UNCHANGED <<envVars, dbVars, lockTable, lockRow, writer, runVars, callVars,
                   result, errVersion, faults, hist, saved, dirExists>>

\* PostgresLocker.Unlock: nothing when !l.locked; else
\* SELECT pg_advisory_unlock($1), then conn.Close().
PgUnlock(p) ==
    /\ pc[p] = "unlock" /\ backend = "postgres"
    /\ IF locked[p]
       THEN /\ sessionLock' = IF sessionLock = p THEN NoProc ELSE sessionLock
            /\ locked' = [locked EXCEPT ![p] = FALSE]
       ELSE UNCHANGED <<sessionLock, locked>>
    /\ pc' = [pc EXCEPT ![p] = "done"]
    /\ UNCHANGED <<envVars, dbVars, lockTable, lockRow, writer, runVars, callVars,
                   result, errVersion, faults, hist, saved, dirExists>>

\* MySQLLocker.Lock: SELECT GET_LOCK(?, 10) returns 1 as soon as the lock is
\* free ...
MyLock(p) ==
    /\ pc[p] = "lock" /\ backend = "mysql"
    /\ ~ctxDone[p]
    /\ sessionLock = NoProc
    /\ sessionLock' = p
    /\ locked' = [locked EXCEPT ![p] = TRUE]
    /\ pc' = [pc EXCEPT ![p] = AfterLock(p)]
    /\ waited' = [waited EXCEPT ![p] = 0]
    /\ UNCHANGED <<hostVars, ctxDone, dbVars, lockTable, lockRow, writer, runVars,
                   callVars, result, errVersion, faults, hist, saved, dirExists>>

\* ... waits while another session holds it, up to the 10 seconds of its
\* second argument ...
MyLockWait(p) ==
    /\ pc[p] = "lock" /\ backend = "mysql"
    /\ ~ctxDone[p]
    /\ sessionLock # NoProc
    /\ waited[p] < GetLockSeconds
    /\ waited' = [waited EXCEPT ![p] = GetLockSeconds]
    /\ UNCHANGED <<hostVars, ctxDone, dbVars, lockVars, locked, pc, runVars, callVars,
                   result, errVersion, faults, hist, saved, dirExists>>

\* Up with the error of Lock logged and not returned.
MyLockTimeoutProceeds(p) ==
    /\ pc[p] = "lock" /\ backend = "mysql"
    /\ ~ctxDone[p]
    /\ sessionLock # NoProc
    /\ waited[p] >= GetLockSeconds
    /\ result' = [result EXCEPT ![p] = "LockTimeout"]
    /\ pc' = [pc EXCEPT ![p] = AfterLock(p)]
    /\ waited' = [waited EXCEPT ![p] = 0]
    /\ UNCHANGED <<hostVars, ctxDone, dbVars, lockVars, locked, runVars, callVars,
                   errVersion, faults, hist, saved, dirExists>>

\* GET_LOCK with a negative timeout: it waits for the lock without end.
MyLockNoTimeout(p) ==
    /\ pc[p] = "lock" /\ backend = "mysql"
    /\ FALSE
    /\ UNCHANGED vars

\* ... and 0 when its 10 seconds end with the lock still held.
MyLockTimeout(p) ==
    /\ pc[p] = "lock" /\ backend = "mysql"
    /\ ~ctxDone[p]
    /\ sessionLock # NoProc
    /\ waited[p] >= GetLockSeconds
    /\ Leave(p, "LockTimeout", 0)
    /\ waited' = [waited EXCEPT ![p] = 0]
    /\ UNCHANGED <<hostVars, ctxDone, dbVars, lockVars, locked, runVars, callVars,
                   faults, hist, saved, dirExists>>

\* MySQLLocker.Unlock: nothing when !l.locked; else
\* SELECT RELEASE_LOCK(?), then conn.Close().
MyUnlock(p) ==
    /\ pc[p] = "unlock" /\ backend = "mysql"
    /\ IF locked[p]
       THEN /\ sessionLock' = IF sessionLock = p THEN NoProc ELSE sessionLock
            /\ locked' = [locked EXCEPT ![p] = FALSE]
       ELSE UNCHANGED <<sessionLock, locked>>
    /\ pc' = [pc EXCEPT ![p] = "done"]
    /\ UNCHANGED <<envVars, dbVars, lockTable, lockRow, writer, runVars, callVars,
                   result, errVersion, faults, hist, saved, dirExists>>

\* SQLiteLocker.Lock, first statement: CREATE TABLE IF NOT EXISTS
\* migration_lock, through the pool.  It writes only when the table is absent.
SqCreateLockTable(p) ==
    /\ pc[p] = "lock" /\ backend = "sqlite3"
    /\ ~ctxDone[p]
    /\ IF lockTable \/ CanWrite(RunConn(p))
       THEN /\ lockTable' = TRUE
            /\ pc' = [pc EXCEPT ![p] = "sq_insert"]
            /\ UNCHANGED <<result, errVersion>>
       ELSE /\ Leave(p, "LockBusy", 0)
            /\ UNCHANGED lockTable
    /\ UNCHANGED <<envVars, dbVars, sessionLock, lockRow, writer, locked, runVars,
                   callVars, faults, hist, saved, dirExists>>

\* SQLiteLocker.Lock taking rows == 0 as "another process holds the lock":
\* it rolls back and returns the error.
SqInsertRowMeansHeld(p) ==
    /\ pc[p] = "sq_insert"
    /\ ~ctxDone[p]
    /\ IF CanWrite(LockConn(p))
       THEN /\ writer' = IF lockRow THEN writer ELSE LockConn(p)
            /\ IF lockRow
               THEN /\ Leave(p, "LockBusy", 0)
                    /\ UNCHANGED locked
               ELSE /\ pc' = [pc EXCEPT ![p] = AfterLock(p)]
                    /\ locked' = [locked EXCEPT ![p] = TRUE]
                    /\ UNCHANGED <<result, errVersion>>
       ELSE /\ Leave(p, "LockBusy", 0)
            /\ UNCHANGED <<writer, locked>>
    /\ UNCHANGED <<envVars, dbVars, sessionLock, lockTable, lockRow, runVars,
                   callVars, faults, hist, saved, dirExists>>

\* SQLiteLocker.Lock: BeginTx, then INSERT OR IGNORE INTO migration_lock in
\* l.tx.  The statement opens the write transaction; rows == 0 when the
\* sentinel row is already there, and the UPDATE follows.
SqInsert(p) ==
    /\ pc[p] = "sq_insert"
    /\ ~ctxDone[p]
    /\ IF CanWrite(LockConn(p))
       THEN /\ writer' = LockConn(p)
            /\ IF lockRow
               THEN /\ pc' = [pc EXCEPT ![p] = "sq_update"]
                    /\ UNCHANGED locked
               ELSE /\ pc' = [pc EXCEPT ![p] = AfterLock(p)]
                    /\ locked' = [locked EXCEPT ![p] = TRUE]
            /\ UNCHANGED <<result, errVersion>>
       ELSE /\ Leave(p, "LockBusy", 0)
            /\ UNCHANGED <<writer, locked>>
    /\ UNCHANGED <<envVars, dbVars, sessionLock, lockTable, lockRow, runVars,
                   callVars, faults, hist, saved, dirExists>>

\* SQLiteLocker.Lock, rows == 0: UPDATE migration_lock in l.tx, which already
\* has the write transaction, so it is done before either timer.
SqUpdate(p) ==
    /\ pc[p] = "sq_update"
    /\ ~ctxDone[p]
    /\ locked' = [locked EXCEPT ![p] = TRUE]
    /\ pc' = [pc EXCEPT ![p] = AfterLock(p)]
    /\ UNCHANGED <<envVars, dbVars, lockVars, runVars, callVars, result, errVersion,
                   faults, hist, saved, dirExists>>

\* SQLiteLocker.Unlock: nothing when !l.locked; l.tx.Commit() returns its
\* error when l.tx is over already; else it ends the write transaction and
\* leaves the sentinel row committed ...
SqUnlockCommit(p) ==
    /\ pc[p] = "unlock" /\ backend = "sqlite3"
    /\ IF locked[p] /\ writer = LockConn(p)
       THEN /\ writer' = WriterReleased(LockConn(p))
            /\ lockRow' = TRUE
            /\ pc' = [pc EXCEPT ![p] = "sq_delete"]
       ELSE /\ pc' = [pc EXCEPT ![p] = "done"]
            /\ UNCHANGED <<writer, lockRow>>
    /\ UNCHANGED <<envVars, dbVars, sessionLock, lockTable, locked, runVars, callVars,
                   result, errVersion, faults, hist, saved, dirExists>>

\* SQLiteLocker.Unlock without its DELETE of the sentinel row.
SqUnlockNoDelete(p) ==
    /\ pc[p] = "sq_delete"
    /\ locked' = [locked EXCEPT ![p] = FALSE]
    /\ pc' = [pc EXCEPT ![p] = "done"]
    /\ UNCHANGED <<envVars, dbVars, lockVars, runVars, callVars, result, errVersion,
                   faults, hist, saved, dirExists>>

\* ... and DELETE FROM migration_lock, through the pool, removes it; on its
\* error Unlock returns with locked still true.
SqUnlockDelete(p) ==
    /\ pc[p] = "sq_delete"
    /\ IF CanWrite(RunConn(p))
       THEN /\ lockRow' = FALSE
            /\ locked' = [locked EXCEPT ![p] = FALSE]
       ELSE UNCHANGED <<lockRow, locked>>
    /\ pc' = [pc EXCEPT ![p] = "done"]
    /\ UNCHANGED <<envVars, dbVars, sessionLock, lockTable, writer, runVars, callVars,
                   result, errVersion, faults, hist, saved, dirExists>>

\* ------------------------------------------------------------ a crash
\* A process stops between the start of Lock and the end of Unlock.  The
\* engine ends its session and rolls back its open transactions: the
\* advisory or named lock of the session is released, l.tx and the
\* migration transaction are dropped; what was committed stays, the
\* sentinel row too.
Crash(p) ==
    /\ pc[p] \notin {"idle", "done", "crashed"}
    /\ pc' = [pc EXCEPT ![p] = "crashed"]
    /\ sessionLock' = IF sessionLock = p THEN NoProc ELSE sessionLock
    /\ writer' = IF writer \in {LockConn(p), RunConn(p)} THEN NoConn ELSE writer
    /\ tx' = [tx EXCEPT ![p] = NoTx]
    /\ locked' = [locked EXCEPT ![p] = FALSE]
    /\ UNCHANGED <<envVars, dbVars, lockTable, lockRow, migrations, appliedVersions,
                   idx, callVars, result, errVersion, faults, hist, saved, dirExists>>

\* ------------------------------------------------- the lockers on their own
\* Lock() without its test of l.locked.
TestLockUntested(p) ==
    /\ pc[p] \in {"idle", "done", "ensure"}
    /\ calls < MaxLockerCalls
    /\ calls' = calls + 1
    /\ result' = [result EXCEPT ![p] = "OK"]
    /\ pc' = [pc EXCEPT ![p] = "lock"]
    /\ hist' = [hist EXCEPT ![p] = [prev |-> "Lock", before |-> hist[p].before]]
    /\ ctxDone' = [ctxDone EXCEPT ![p] = FALSE]
    /\ UNCHANGED <<hostVars, waited, dbVars, lockVars, locked, runVars, op, dryRun,
                   steps, errVersion, faults, saved, dirExists>>

\* A locker used directly, as the lock tests do: Lock() on it ("ya esta
\* bloqueado" when l.locked) ...
TestLock(p) ==
    /\ pc[p] \in {"idle", "done", "ensure"}
    /\ calls < MaxLockerCalls
    /\ calls' = calls + 1
    /\ IF locked[p]
       THEN /\ result' = [result EXCEPT ![p] = "AlreadyLocked"]
            /\ UNCHANGED pc
       ELSE /\ result' = [result EXCEPT ![p] = "OK"]
            /\ pc' = [pc EXCEPT ![p] = "lock"]
    /\ hist' = [hist EXCEPT ![p] = [prev |-> "Lock", before |-> hist[p].before]]
    /\ ctxDone' = [ctxDone EXCEPT ![p] = FALSE]
    /\ UNCHANGED <<hostVars, waited, dbVars, lockVars, locked, runVars, op, dryRun,
                   steps, errVersion, faults, saved, dirExists>>

\* ... and Unlock() on it, whether Lock succeeded, failed or was never
\* called, and once more after an Unlock.  Here hist[p].before numbers the
\* Unlocks that followed a successful Lock.
TestUnlock(p) ==
    /\ pc[p] \in {"idle", "done", "ensure"}
    /\ calls < MaxLockerCalls
    /\ calls' = calls + 1
    /\ pc' = [pc EXCEPT ![p] = "unlock"]
    /\ hist' = [hist EXCEPT ![p] =
                   [prev |-> IF hist[p].prev \in {"Unlock", "UnlockAgain"}
                             THEN "UnlockAgain"
                             ELSE IF locked[p] THEN "Unlock" ELSE "UnlockUnlocked",
                    before |-> IF locked[p] /\ hist[p].prev = "Lock"
                               THEN hist[p].before
                                      \cup {Cardinality(hist[p].before) + 1}
                               ELSE hist[p].before]]
    /\ UNCHANGED <<envVars, dbVars, lockVars, locked, runVars, op, dryRun, steps,
                   result, errVersion, faults, saved, dirExists>>

\* Load(dir) over a directory listing that is not sorted: the entries come
\* in one order at one call and in the reverse order at the next.
TestLoadUnsortedDir(p) ==
    /\ pc[p] \in {"idle", "done"}
    /\ calls < MaxCalls
    /\ calls' = calls + 1
    /\ IF dirExists /\ dirReadable
       THEN LET fs == ReadDir(dir)
                n  == Len(fs)
                files == IF calls % 2 = 0 THEN fs ELSE [k \in 1..n |-> fs[n + 1 - k]]
                m  == LoadLoop(files, <<>>)
                vs == SortedSeq(DOMAIN m)
            IN  /\ migrations' = [migrations EXCEPT ![p] =
                                     [k \in 1..Len(vs) |-> m[vs[k]]]]
                /\ result' = [result EXCEPT ![p] = "OK"]
       ELSE /\ migrations' = [migrations EXCEPT ![p] = <<>>]
            /\ result' = [result EXCEPT ![p] = "IOFailure"]
    /\ pc' = [pc EXCEPT ![p] = "done"]
    /\ hist' = [hist EXCEPT ![p] = [prev |-> "Load", before |-> {}]]
    /\ UNCHANGED <<envVars, dbVars, lockVars, locked, appliedVersions, idx, tx, op,
                   dryRun, steps, errVersion, faults, saved, dirExists>>

\* Load(dir) called directly, as the loader tests do.
TestLoad(p) ==
    /\ pc[p] \in {"idle", "done"}
    /\ calls < MaxCalls
    /\ calls' = calls + 1
    /\ IF dirExists /\ dirReadable
       THEN /\ migrations' = [migrations EXCEPT ![p] = Load(dir)]
            /\ result' = [result EXCEPT ![p] = "OK"]
       ELSE /\ migrations' = [migrations EXCEPT ![p] = <<>>]
            /\ result' = [result EXCEPT ![p] = "IOFailure"]
    /\ pc' = [pc EXCEPT ![p] = "done"]
    /\ hist' = [hist EXCEPT ![p] = [prev |-> "Load", before |-> {}]]
    /\ UNCHANGED <<envVars, dbVars, lockVars, locked, appliedVersions, idx, tx, op,
                   dryRun, steps, errVersion, faults, saved, dirExists>>

\* The file NewMigration writes for version v and the name number nm:
\* <v>_<name>.up.sql with "-- UP", or <v>_<name>.down.sql with "-- DOWN".
Created(v, nm, k) ==
    [name |-> (v * (MaxNames + 1) + nm) * 2 + (IF k = "up" THEN 1 ELSE 0),
     token |-> "int", version |-> v, ext |-> "sql", kind |-> k, readable |-> TRUE,
     sql |-> "ok"]

\* NewMigration(dir, name): os.MkdirAll(dir) first; then an empty name
\* (nm = 0) is an error; else
\* version := time.Now().Unix() and os.WriteFile of the two files, which
\* replaces a file of the same name.
NewMigration(p) ==
    /\ pc[p] \in {"idle", "done"}
    /\ calls < MaxCalls
    /\ calls' = calls + 1
    /\ dirExists' = TRUE
    /\ \E nm \in 0..MaxNames :
         IF nm = 0
         THEN /\ result' = [result EXCEPT ![p] = "InvalidArgument"]
              /\ UNCHANGED <<dir, created>>
         ELSE LET up   == Created(now, nm, "up")
                  down == Created(now, nm, "down")
              IN  /\ dir' = {f \in dir : f.name \notin {up.name, down.name}}
                               \cup {up, down}
                  /\ created' = Append(created, now)
                  /\ result' = [result EXCEPT ![p] = "OK"]
    /\ pc' = [pc EXCEPT ![p] = "done"]
    /\ hist' = [hist EXCEPT ![p] = [prev |-> "NewMigration", before |-> {}]]
    /\ UNCHANGED <<backend, dirReadable, now, ctxDone, waited, dbVars, lockVars,
                   locked, runVars, op, dryRun, steps, errVersion, faults, saved>>

\* A second passes.
ClockTick ==
    /\ now < MaxClock
    /\ now' = now + 1
    /\ UNCHANGED <<backend, dir, dirReadable, created, ctxDone, waited, dbVars,
                   lockVars, pc, locked, runVars, callVars, result, errVersion,
                   faults, hist, saved, dirExists>>

\* A developer adds the two files of a version the directory does not have
\* (a branch is merged), while no call is running.
AddArtifact ==
    /\ \A p \in Procs : pc[p] \in {"idle", "done"}
    /\ \E v \in Versions \ LoadedVersions(dir) :
         dir' = dir \cup {File(v, "up", "ok"), File(v, "down", "ok")}
    /\ UNCHANGED <<backend, dirReadable, now, created, ctxDone, waited, dbVars,
                   lockVars, pc, locked, runVars, callVars, result, errVersion,
                   faults, hist, saved, dirExists>>

\* The permissions of the directory change (os.Chmod), while no call is
\* running.
Chmod ==
    /\ \A p \in Procs : pc[p] \in {"idle", "done"}
    /\ dirReadable' = ~dirReadable
    /\ UNCHANGED <<backend, dir, now, created, ctxDone, waited, dbVars, lockVars,
                   pc, locked, runVars, callVars, result, errVersion, faults, hist, saved, dirExists>>

\* ----------------------------------------------------------- transactions
\* The sequence s without its elements in S.
Without(s, S) == LET Keep(x) == x \notin S IN SelectSeq(s, Keep)

\* db.Beginx(): a transaction for the migration of version v.
Begin(v) == [NoTx EXCEPT !.open = TRUE, !.version = v]

\* tx.Exec(script): a script that runs to its end stages its whole effect
\* (kind "up" adds it, "down" removes it); one that fails partway has staged
\* a part of it when the error comes back.
ExecScript(t, kind, sql) ==
    IF sql = "bad" THEN [t EXCEPT !.partialAdd = {t.version}]
    ELSE IF kind = "up" THEN [t EXCEPT !.schemaAdd = {t.version}]
    ELSE [t EXCEPT !.schemaDel = {t.version}]

\* The INSERT left out of the transaction.
InsertRowSkipped(t) == t

\* tx.Exec(INSERT INTO schema_migrations(version) VALUES(?)).
InsertRow(t) == [t EXCEPT !.ledgerAdd = {t.version}]

\* The transaction of a revert without its DELETE of the ledger row.
DeleteRowSkipped(t) == t

\* tx.Exec(DELETE FROM schema_migrations WHERE version = ?).
DeleteRow(t) == [t EXCEPT !.ledgerDel = {t.version}]

\* tx.Commit(): the staged writes of t become the committed state.
Commit(t) ==
    /\ ledger' = (ledger \cup t.ledgerAdd) \ t.ledgerDel
    /\ appliedAt' = Without(appliedAt, t.ledgerDel) \o SortedSeq(t.ledgerAdd)
    /\ schema' = (schema \cup t.schemaAdd) \ t.schemaDel
    /\ partial' = partial \cup t.partialAdd
    /\ UNCHANGED ledgerTable

\* tx.Commit() called where tx.Rollback() belongs.
RollbackCommits(t) == Commit(t)

\* tx.Rollback(): the staged writes of t are dropped.
Rollback(t) == UNCHANGED dbVars

\* An engine failure at a ledger statement or at Commit (a lost connection,
\* a full disk), at most MaxFaults of them in a run.
Fault ==
    /\ faults < MaxFaults
    /\ faults' = faults + 1

\* ------------------------------------------------------------ state ledger
\* ensure(db): CREATE TABLE IF NOT EXISTS schema_migrations, through the
\* pool; Up calls it in dry-run as well.
Ensure(p) ==
    /\ pc[p] = "ensure"
    /\ IF ledgerTable \/ CanWrite(RunConn(p))
       THEN /\ ledgerTable' = TRUE
            /\ pc' = [pc EXCEPT ![p] = "load"]
            /\ UNCHANGED <<result, errVersion>>
       ELSE /\ Leave(p, "DatabaseError", 0)
            /\ UNCHANGED ledgerTable
    /\ UNCHANGED <<envVars, ledger, schema, partial, appliedAt, lockVars, locked, runVars,
                   callVars, faults, hist, saved, dirExists>>

\* migrations, err := Load(dir).  On its error Up returns it, DownN wraps it
\* ("error cargando migraciones"), and Down returns "no migration to
\* rollback".
LoadDir(p) ==
    /\ pc[p] = "load"
    /\ IF dirExists /\ dirReadable
       THEN /\ migrations' = [migrations EXCEPT ![p] = Load(dir)]
            /\ pc' = [pc EXCEPT ![p] = IF op[p] = "Down" THEN "last" ELSE "applied"]
            /\ UNCHANGED <<result, errVersion>>
       ELSE /\ Leave(p, IF op[p] = "Down" THEN "NothingToRevert" ELSE "IOFailure", 0)
            /\ UNCHANGED migrations
    /\ UNCHANGED <<envVars, dbVars, lockVars, locked, appliedVersions, idx, tx,
                   callVars, faults, hist, saved, dirExists>>

\* DownN taking the first `n` applied versions instead of the last.
ToRevertOldest(av, n) == [k \in 1..n |-> av[k]]

\* The versions DownN reverts, most recent first: the last `n` of `av`.
ToRevert(av, n) == [k \in 1..n |-> av[Len(av) + 1 - k]]

\* DownN without the test `steps > len(appliedVersions)`.
ReadAppliedUnchecked(p) ==
    /\ pc[p] = "applied"
    /\ LET av == SortedSeq(ledger) IN
       IF ~ledgerTable
       THEN /\ Leave(p, "DatabaseError", 0)
            /\ UNCHANGED <<appliedVersions, idx>>
       ELSE IF op[p] = "DownN" /\ Len(av) = 0
       THEN /\ Leave(p, "NothingToRevert", 0)
            /\ appliedVersions' = [appliedVersions EXCEPT ![p] = av]
            /\ UNCHANGED idx
       ELSE /\ appliedVersions' = [appliedVersions EXCEPT ![p] = av]
            /\ idx' = [idx EXCEPT ![p] = 1]
            /\ pc' = [pc EXCEPT ![p] = IF op[p] = "Up" THEN "up_loop" ELSE "down_loop"]
            /\ UNCHANGED <<result, errVersion>>
    /\ UNCHANGED <<envVars, dbVars, lockVars, locked, migrations, tx, callVars,
                   faults, hist, saved, dirExists>>

\* appliedVersions, err := applied(db): all rows ascending; an error when
\* the table does not exist.  DownN then checks the count against steps.
ReadApplied(p) ==
    /\ pc[p] = "applied"
    /\ LET av == SortedSeq(ledger) IN
       IF ~ledgerTable
       THEN /\ Leave(p, "DatabaseError", 0)
            /\ UNCHANGED <<appliedVersions, idx>>
       ELSE IF op[p] = "DownN" /\ Len(av) = 0
       THEN /\ Leave(p, "NothingToRevert", 0)
            /\ appliedVersions' = [appliedVersions EXCEPT ![p] = av]
            /\ UNCHANGED idx
       ELSE IF op[p] = "DownN" /\ steps[p] > Len(av)
       THEN /\ Leave(p, "InsufficientAppliedMigrations", 0)
            /\ appliedVersions' = [appliedVersions EXCEPT ![p] = av]
            /\ UNCHANGED idx
       ELSE /\ appliedVersions' = [appliedVersions EXCEPT ![p] = av]
            /\ idx' = [idx EXCEPT ![p] = 1]
            /\ pc' = [pc EXCEPT ![p] = IF op[p] = "Up" THEN "up_loop" ELSE "down_loop"]
            /\ UNCHANGED <<result, errVersion>>
    /\ UNCHANGED <<envVars, dbVars, lockVars, locked, migrations, tx, callVars,
                   faults, hist, saved, dirExists>>

\* --------------------------------------------------------------------- Up
\* The loop of Up without the test of the done map: every loaded migration.
PendingAll(ms, av, from) == from..Len(ms)

\* The indices of `ms`, from `from` on, whose version is not in `av`.
Pending(ms, av, from) ==
    {k \in from..Len(ms) : ms[k].Version \notin SeqToSet(av)}

\* for _, m := range migrations: skip the applied ones; in dry-run print the
\* others and go on; else open the transaction of the next pending one.
UpLoop(p) ==
    /\ pc[p] = "up_loop"
    /\ LET pend == Pending(migrations[p], appliedVersions[p], idx[p]) IN
       IF pend = {} \/ dryRun[p]
       THEN /\ Leave(p, "OK", 0)
            /\ idx' = [idx EXCEPT ![p] = Len(migrations[p]) + 1]
            /\ UNCHANGED tx
       ELSE LET k == CHOOSE x \in pend : \A y \in pend : x <= y IN
            /\ idx' = [idx EXCEPT ![p] = k]
            /\ tx' = [tx EXCEPT ![p] = Begin(migrations[p][k].Version)]
            /\ pc' = [pc EXCEPT ![p] = "up_exec"]
            /\ UNCHANGED <<result, errVersion>>
    /\ UNCHANGED <<envVars, dbVars, lockVars, locked, migrations, appliedVersions,
                   callVars, faults, hist, saved, dirExists>>

\* Up that on the error of a script takes back the migrations it had
\* committed in this call.
UpExecUndoAll(p) ==
    /\ pc[p] = "up_exec"
    /\ LET m == migrations[p][idx[p]]
           t == ExecScript(tx[p], "up", m.UpSQL) IN
       IF CanWrite(RunConn(p)) /\ m.UpSQL # "bad"
       THEN /\ tx' = [tx EXCEPT ![p] = t]
            /\ writer' = WriterAfter(RunConn(p))
            /\ pc' = [pc EXCEPT ![p] = "up_insert"]
            /\ UNCHANGED <<dbVars, result, errVersion>>
       ELSE /\ ledger' = ledger \cap SeqToSet(appliedVersions[p])
            /\ schema' = schema \cap SeqToSet(appliedVersions[p])
            /\ appliedAt' = Without(appliedAt, ledger \ SeqToSet(appliedVersions[p]))
            /\ UNCHANGED <<ledgerTable, partial>>
            /\ tx' = [tx EXCEPT ![p] = NoTx]
            /\ writer' = WriterReleased(RunConn(p))
            /\ Leave(p, "ScriptExecutionFailed", m.Version)
    /\ UNCHANGED <<envVars, sessionLock, lockTable, lockRow, locked, migrations,
                   appliedVersions, idx, callVars, faults, hist, saved, dirExists>>

\* tx.Exec(m.UpSQL); on its error tx.Rollback() and return "up %d failed".
UpExec(p) ==
    /\ pc[p] = "up_exec"
    /\ LET m == migrations[p][idx[p]]
           t == ExecScript(tx[p], "up", m.UpSQL) IN
       IF CanWrite(RunConn(p)) /\ m.UpSQL # "bad"
       THEN /\ tx' = [tx EXCEPT ![p] = t]
            /\ writer' = WriterAfter(RunConn(p))
            /\ pc' = [pc EXCEPT ![p] = "up_insert"]
            /\ UNCHANGED <<dbVars, result, errVersion>>
       ELSE /\ Rollback(IF CanWrite(RunConn(p)) THEN t ELSE tx[p])
            /\ tx' = [tx EXCEPT ![p] = NoTx]
            /\ writer' = WriterReleased(RunConn(p))
            /\ Leave(p, "ScriptExecutionFailed", m.Version)
    /\ UNCHANGED <<envVars, sessionLock, lockTable, lockRow, locked, migrations,
                   appliedVersions, idx, callVars, faults, hist, saved, dirExists>>

\* tx.Exec(INSERT ...); on its error (a row with that version exists, or the
\* engine fails) tx.Rollback() and return.
UpInsert(p) ==
    /\ pc[p] = "up_insert"
    /\ \/ /\ tx[p].version \notin ledger
          /\ tx' = [tx EXCEPT ![p] = InsertRow(tx[p])]
          /\ pc' = [pc EXCEPT ![p] = "up_commit"]
          /\ UNCHANGED <<dbVars, writer, result, errVersion, faults>>
       \/ /\ \/ tx[p].version \in ledger /\ UNCHANGED faults
             \/ Fault
          /\ Rollback(tx[p])
          /\ tx' = [tx EXCEPT ![p] = NoTx]
          /\ writer' = WriterReleased(RunConn(p))
          /\ Leave(p, "LedgerWriteFailed", tx[p].version)
    /\ UNCHANGED <<envVars, sessionLock, lockTable, lockRow, locked, migrations,
                   appliedVersions, idx, callVars, hist, saved, dirExists>>

\* tx.Commit(); on its error return it (the transaction is over, nothing of
\* it is committed); else go on with the next migration.
UpCommit(p) ==
    /\ pc[p] = "up_commit"
    /\ \/ /\ tx[p].ledgerAdd \cap ledger = {}
          /\ Commit(tx[p])
          /\ idx' = [idx EXCEPT ![p] = @ + 1]
          /\ pc' = [pc EXCEPT ![p] = "up_loop"]
          /\ UNCHANGED <<result, errVersion, faults>>
       \/ /\ \/ tx[p].ledgerAdd \cap ledger # {} /\ UNCHANGED faults
             \/ Fault
          /\ Rollback(tx[p])
          /\ Leave(p, "CommitFailed", tx[p].version)
          /\ UNCHANGED idx
    /\ tx' = [tx EXCEPT ![p] = NoTx]
    /\ writer' = WriterReleased(RunConn(p))
    /\ UNCHANGED <<envVars, sessionLock, lockTable, lockRow, locked, migrations,
                   appliedVersions, callVars, hist, saved, dirExists>>

\* Whether the error r of operation o carries the version in its text: "up %d
\* failed" and "error registrando migracion %d" of Up, the %d messages of
\* DownN; Up returns the error of tx.Commit() as it is, DownN wraps it in
\* "error en commit", and the messages of Down have no version.
NamesVersion(o, r) ==
    CASE o = "Up" -> r \in {"ScriptExecutionFailed", "LedgerWriteFailed"}
      [] o = "DownN" -> r \in {"ScriptExecutionFailed", "LedgerWriteFailed",
                               "MissingRevertScript"}
      [] OTHER -> FALSE

\* ---------------------------------------------------------- Down and DownN
\* The index in `ms` of the migration with version v; 0 when there is none.
Find(ms, v) ==
    IF \E k \in 1..Len(ms) : ms[k].Version = v
    THEN CHOOSE k \in 1..Len(ms) : ms[k].Version = v
    ELSE 0

\* The revert without the test of the target and of its down script.
NoDownIgnored(ms, v) == FALSE

\* target == nil || target.DownSQL == "" (Down), !exists / DownSQL == "" (DownN).
NoDown(ms, v) == Find(ms, v) = 0 \/ ms[Find(ms, v)].DownSQL = ""

\* Down returning nil when there is no row to revert.
ReadLastEmptyOK(p) ==
    /\ pc[p] = "last"
    /\ IF ~ledgerTable \/ ledger = {}
       THEN /\ Leave(p, "OK", 0)
            /\ UNCHANGED tx
       ELSE IF NoDown(migrations[p], Max(ledger))
       THEN /\ Leave(p, "MissingRevertScript", Max(ledger))
            /\ UNCHANGED tx
       ELSE IF dryRun[p]
       THEN /\ Leave(p, "OK", 0)
            /\ UNCHANGED tx
       ELSE /\ tx' = [tx EXCEPT ![p] = Begin(Max(ledger))]
            /\ pc' = [pc EXCEPT ![p] = "down_exec"]
            /\ UNCHANGED <<result, errVersion>>
    /\ UNCHANGED <<envVars, dbVars, lockVars, locked, migrations, appliedVersions,
                   idx, callVars, faults, hist, saved, dirExists>>

\* Down: v, err := last(db), the target of version v and its DownSQL; in
\* dry-run print it and return; else db.Beginx().
ReadLast(p) ==
    /\ pc[p] = "last"
    /\ IF ~ledgerTable \/ ledger = {}
       THEN /\ Leave(p, "NothingToRevert", 0)
            /\ UNCHANGED tx
       ELSE IF NoDown(migrations[p], Max(ledger))
       THEN /\ Leave(p, "MissingRevertScript", Max(ledger))
            /\ UNCHANGED tx
       ELSE IF dryRun[p]
       THEN /\ Leave(p, "OK", 0)
            /\ UNCHANGED tx
       ELSE /\ tx' = [tx EXCEPT ![p] = Begin(Max(ledger))]
            /\ pc' = [pc EXCEPT ![p] = "down_exec"]
            /\ UNCHANGED <<result, errVersion>>
    /\ UNCHANGED <<envVars, dbVars, lockVars, locked, migrations, appliedVersions,
                   idx, callVars, faults, hist, saved, dirExists>>

\* DownN: for i := len(toRevert) - 1; i >= 0; i--: the target must exist and
\* have a down script; in dry-run print it and go on; else db.Beginx().
\* idx counts the versions of ToRevert, the most recent first.
DownLoop(p) ==
    /\ pc[p] = "down_loop"
    /\ LET tr == ToRevert(appliedVersions[p], steps[p])
           bad == {k \in idx[p]..steps[p] : NoDown(migrations[p], tr[k])}
           stop == IF dryRun[p] THEN bad ELSE bad \cap {idx[p]} IN
       IF stop # {}
       THEN /\ Leave(p, "MissingRevertScript", tr[CHOOSE k \in stop : \A j \in stop : k <= j])
            /\ UNCHANGED <<tx, idx>>
       ELSE IF idx[p] > steps[p] \/ dryRun[p]
       THEN /\ Leave(p, "OK", 0)
            /\ UNCHANGED <<tx, idx>>
       ELSE /\ tx' = [tx EXCEPT ![p] = Begin(tr[idx[p]])]
            /\ pc' = [pc EXCEPT ![p] = "down_exec"]
            /\ UNCHANGED <<result, errVersion, idx>>
    /\ UNCHANGED <<envVars, dbVars, lockVars, locked, migrations, appliedVersions,
                   callVars, faults, hist, saved, dirExists>>

\* DownN that on the error of a script puts back the versions it had
\* reverted in this call.
DownExecCompensates(p) ==
    /\ pc[p] = "down_exec"
    /\ LET m == migrations[p][Find(migrations[p], tx[p].version)]
           t == ExecScript(tx[p], "down", m.DownSQL) IN
       IF CanWrite(RunConn(p)) /\ m.DownSQL # "bad"
       THEN /\ tx' = [tx EXCEPT ![p] = t]
            /\ writer' = WriterAfter(RunConn(p))
            /\ pc' = [pc EXCEPT ![p] = "down_delete"]
            /\ UNCHANGED <<dbVars, result, errVersion>>
       ELSE /\ ledger' = ledger \cup SeqToSet(appliedVersions[p])
            /\ schema' = schema \cup SeqToSet(appliedVersions[p])
            /\ appliedAt' = appliedAt \o SortedSeq(SeqToSet(appliedVersions[p]) \ ledger)
            /\ UNCHANGED <<ledgerTable, partial>>
            /\ tx' = [tx EXCEPT ![p] = NoTx]
            /\ writer' = WriterReleased(RunConn(p))
            /\ Leave(p, "ScriptExecutionFailed", m.Version)
    /\ UNCHANGED <<envVars, sessionLock, lockTable, lockRow, locked, migrations,
                   appliedVersions, idx, callVars, faults, hist, saved, dirExists>>

\* tx.Exec(target.DownSQL); on its error tx.Rollback() and return.
DownExec(p) ==
    /\ pc[p] = "down_exec"
    /\ LET m == migrations[p][Find(migrations[p], tx[p].version)]
           t == ExecScript(tx[p], "down", m.DownSQL) IN
       IF CanWrite(RunConn(p)) /\ m.DownSQL # "bad"
       THEN /\ tx' = [tx EXCEPT ![p] = t]
            /\ writer' = WriterAfter(RunConn(p))
            /\ pc' = [pc EXCEPT ![p] = "down_delete"]
            /\ UNCHANGED <<dbVars, result, errVersion>>
       ELSE /\ Rollback(IF CanWrite(RunConn(p)) THEN t ELSE tx[p])
            /\ tx' = [tx EXCEPT ![p] = NoTx]
            /\ writer' = WriterReleased(RunConn(p))
            /\ Leave(p, "ScriptExecutionFailed", m.Version)
    /\ UNCHANGED <<envVars, sessionLock, lockTable, lockRow, locked, migrations,
                   appliedVersions, idx, callVars, faults, hist, saved, dirExists>>

\* tx.Exec(DELETE ...); on its error tx.Rollback() and return.
DownDelete(p) ==
    /\ pc[p] = "down_delete"
    /\ \/ /\ tx' = [tx EXCEPT ![p] = DeleteRow(tx[p])]
          /\ pc' = [pc EXCEPT ![p] = "down_commit"]
          /\ UNCHANGED <<dbVars, writer, result, errVersion, faults>>
       \/ /\ Fault
          /\ Rollback(tx[p])
          /\ tx' = [tx EXCEPT ![p] = NoTx]
          /\ writer' = WriterReleased(RunConn(p))
          /\ Leave(p, "LedgerWriteFailed", tx[p].version)
    /\ UNCHANGED <<envVars, sessionLock, lockTable, lockRow, locked, migrations,
                   appliedVersions, idx, callVars, hist, saved, dirExists>>

\* The revert loop with its transaction dropped where it should commit.
DownCommitLost(p) ==
    /\ pc[p] = "down_commit"
    /\ \/ /\ Rollback(tx[p])
          /\ IF op[p] = "Down"
             THEN Leave(p, "OK", 0) /\ UNCHANGED idx
             ELSE /\ idx' = [idx EXCEPT ![p] = @ + 1]
                  /\ pc' = [pc EXCEPT ![p] = "down_loop"]
                  /\ UNCHANGED <<result, errVersion>>
          /\ UNCHANGED faults
       \/ /\ Fault
          /\ Rollback(tx[p])
          /\ Leave(p, "CommitFailed", tx[p].version)
          /\ UNCHANGED idx
    /\ tx' = [tx EXCEPT ![p] = NoTx]
    /\ writer' = WriterReleased(RunConn(p))
    /\ UNCHANGED <<envVars, sessionLock, lockTable, lockRow, locked, migrations,
                   appliedVersions, callVars, hist, saved, dirExists>>

\* tx.Commit(); Down then returns nil, DownN goes on with the next version.
DownCommit(p) ==
    /\ pc[p] = "down_commit"
    /\ \/ /\ Commit(tx[p])
          /\ IF op[p] = "Down"
             THEN Leave(p, "OK", 0) /\ UNCHANGED idx
             ELSE /\ idx' = [idx EXCEPT ![p] = @ + 1]
                  /\ pc' = [pc EXCEPT ![p] = "down_loop"]
                  /\ UNCHANGED <<result, errVersion>>
          /\ UNCHANGED faults
       \/ /\ Fault
          /\ Rollback(tx[p])
          /\ Leave(p, "CommitFailed", tx[p].version)
          /\ UNCHANGED idx
    /\ tx' = [tx EXCEPT ![p] = NoTx]
    /\ writer' = WriterReleased(RunConn(p))
    /\ UNCHANGED <<envVars, sessionLock, lockTable, lockRow, locked, migrations,
                   appliedVersions, callVars, hist, saved, dirExists>>

\* ----------------------------------------------------------- specification
\* The steps a process can take with no other process around ...
Alone(p) ==
        \/ Call(p)
        \/ PgLock(p) \/ PgUnlock(p)
        \/ MyLock(p) \/ MyUnlock(p)
        \/ SqCreateLockTable(p) \/ SqInsert(p)
        \/ SqUnlockCommit(p) \/ SqUnlockDelete(p)
        \/ Ensure(p) \/ LoadDir(p) \/ ReadApplied(p)
        \/ UpLoop(p) \/ UpExec(p) \/ UpInsert(p) \/ UpCommit(p)
        \/ ReadLast(p) \/ DownLoop(p) \/ DownExec(p) \/ DownDelete(p) \/ DownCommit(p)

\* ... and those that need another process to hold, or to have held, the lock.
Contended(p) == MyLockWait(p) \/ MyLockTimeout(p) \/ SqUpdate(p)

Next == \E p \in Procs : Alone(p) \/ Contended(p)

\* Several processes against one database.
Spec == Init /\ [][Next]_vars

\* One process alone, call after call.
NextSeq == Alone(1)

SpecSeq == Init /\ [][NextSeq]_vars

\* One process, call after call, and Down compared with DownN(1).
NextCompare == Alone(1) \/ CompareDown(1) \/ Restore(1) \/ CompareDownN(1)

SpecCompare == Init /\ [][NextCompare]_vars

\* The lockers alone: processes that call Lock and Unlock in any order.
NextLock ==
    \E p \in Procs :
        \/ TestLock(p) \/ TestUnlock(p)
        \/ PgLock(p) \/ PgUnlock(p)
        \/ MyLock(p) \/ MyLockWait(p) \/ MyLockTimeout(p) \/ MyUnlock(p)
        \/ SqCreateLockTable(p) \/ SqInsert(p) \/ SqUpdate(p)
        \/ SqUnlockCommit(p) \/ SqUnlockDelete(p)

SpecLock == Init /\ [][NextLock]_vars

\* A locker used directly by one process, with no other to wait for.
LockerAlone(p) ==
        \/ TestLock(p) \/ TestUnlock(p)
        \/ PgLock(p) \/ PgUnlock(p)
        \/ MyLock(p) \/ MyUnlock(p)
        \/ SqCreateLockTable(p) \/ SqInsert(p)
        \/ SqUnlockCommit(p) \/ SqUnlockDelete(p)
        \/ Cancel(p) \/ LockCanceled(p)

\* A runner whose context can end at any point of its call, next to a
\* process that uses a locker directly.
NextCtx ==
        \/ Alone(1) \/ Contended(1)
        \/ Cancel(1) \/ LockCanceled(1)
        \/ LockerAlone(2)

SpecCtx == Init /\ [][NextCtx]_vars

\* Load on its own, over any directory.
InitLoad ==
    /\ \E N \in SUBSET (1..MaxFiles) :
         \E pick \in [N -> FileShapes] : dir = {Named(pick[n], n) : n \in N}
    /\ dirReadable \in BOOLEAN
    /\ dirExists = TRUE
    /\ backend = "sqlite3"
    /\ Start

NextLoad == TestLoad(1)

SpecLoad == InitLoad /\ [][NextLoad]_vars

\* NewMigration and Load on a directory that starts empty, or is not there
\* yet.
InitCreate ==
    /\ dir = {}
    /\ dirReadable = TRUE
    /\ dirExists \in BOOLEAN
    /\ backend = "sqlite3"
    /\ Start

NextCreate == ClockTick \/ \E p \in Procs : NewMigration(p) \/ TestLoad(p)

SpecCreate == InitCreate /\ [][NextCreate]_vars

\* One process, call after call, on a directory that starts with any of the
\* test migrations and gets the others between the calls.
InitAdd ==
    /\ backend \in Backends
    /\ \E S \in SUBSET Versions :
         dir = {f \in SetupTestMigrations : f.version \in S}
    /\ dirReadable = TRUE
    /\ dirExists = TRUE
    /\ Start

NextAdd == Alone(1) \/ AddArtifact

SpecAdd == InitAdd /\ [][NextAdd]_vars

\* One process, call after call, on a directory that can be read at some
\* calls and not at others.
NextIO == Alone(1) \/ Chmod

SpecIO == Init /\ [][NextIO]_vars

\* The steps of a Lock call whose context does not end.
Acquire(p) ==
        \/ PgLock(p)
        \/ MyLock(p) \/ MyLockWait(p) \/ MyLockTimeout(p)
        \/ SqCreateLockTable(p) \/ SqInsert(p) \/ SqUpdate(p)

\* The lockers used directly by two processes, the first of which can stop
\* at any point of its Lock, of its Unlock or between the two.  A Lock call
\* in progress goes on.
NextCrash ==
    \/ Crash(1)
    \/ \E p \in Procs :
          \/ TestLock(p) \/ TestUnlock(p)
          \/ Acquire(p)
          \/ PgUnlock(p) \/ MyUnlock(p) \/ SqUnlockCommit(p) \/ SqUnlockDelete(p)

SpecCrash ==
    Init /\ [][NextCrash]_vars /\ \A q \in Procs \ {1} : WF_vars(Acquire(q))

\* The steps of a Lock call in progress.
LockStep(p) ==
        \/ PgLock(p)
        \/ MyLock(p) \/ MyLockWait(p) \/ MyLockTimeout(p)
        \/ SqCreateLockTable(p) \/ SqInsert(p) \/ SqUpdate(p)
        \/ LockCanceled(p)

\* The lockers used directly, with contexts that can end.  A Lock call in
\* progress goes on (its goroutine runs and the engine answers); nothing
\* makes a holder call Unlock.
NextAcquire ==
    \E p \in Procs :
        \/ TestLock(p) \/ TestUnlock(p) \/ Cancel(p)
        \/ LockStep(p)
        \/ PgUnlock(p) \/ MyUnlock(p) \/ SqUnlockCommit(p) \/ SqUnlockDelete(p)

SpecAcquire ==
    Init /\ [][NextAcquire]_vars /\ \A p \in Procs : WF_vars(LockStep(p))

\* ------------------------------------------------------------------ claims
\* The positions between a successful Lock and the deferred Unlock: the
\* read-ledger / apply / revert protocol of a non-dry-run call.
ProtocolPcs ==
    {"ensure", "load", "applied", "last", "up_loop", "up_exec", "up_insert",
     "up_commit", "down_loop", "down_exec", "down_delete", "down_commit"}

InProtocol(p) == ~dryRun[p] /\ pc[p] \in ProtocolPcs

\* The positions of a call that has returned its result (the deferred Unlock
\* may still be running).
Returned(p) == pc[p] \in {"unlock", "sq_delete", "done"} /\ calls > 0

Finished(p) == pc[p] = "done" /\ calls > 0

C2_ExactlyOnceUnderConcurrency ==
    ( /\ dir = SetupTestMigrations
      /\ faults = 0
      /\ calls = NumProcs
      /\ \A p \in Procs : Finished(p) /\ op[p] = "Up" /\ ~dryRun[p] )
    => ( /\ ledger = LoadedVersions(dir)
         /\ \E p \in Procs : result[p] = "OK" )

\* C3 (as claimed): a Lock that finds the lock held never fails at once; a
\* call that fails at Lock fails because the wait ran out.
C3_BlockingAcquire ==
    \A p \in Procs : Returned(p) => result[p] # "LockUnavailable"

\* C4: ledger/schema agreement.  In every reachable state, the committed
\* ledger rows are exactly the versions whose apply script's effect is
\* committed, and no part of a failed script is committed.
C4_LedgerSchemaAgreement == ledger = schema /\ partial = {}

\* C4 witness: a call has failed at the script, at the ledger statement or at
\* Commit while an earlier migration stays applied.
C4_Witness ==
    \E p \in Procs :
        /\ Finished(p)
        /\ result[p] \in {"ScriptExecutionFailed", "LedgerWriteFailed", "CommitFailed"}
        /\ ledger # {}

\* C5: atomic failure of one migration.  When Up has returned the error of a
\* failed apply script, neither an effect of that script nor a ledger row of
\* its version is present.
C5_AtomicFailure ==
    \A p \in Procs :
        (Returned(p) /\ op[p] = "Up" /\ result[p] = "ScriptExecutionFailed")
        => ( /\ errVersion[p] \notin ledger
             /\ errVersion[p] \notin schema
             /\ errVersion[p] \notin partial )

\* C5 witness: Up has returned the error of a script that failed partway,
\* after it had applied the migration before it.
C5_Witness ==
    \E p \in Procs :
        /\ Finished(p) /\ op[p] = "Up" /\ result[p] = "ScriptExecutionFailed"
        /\ FileSQL(dir, errVersion[p], "up") = "bad"
        /\ ledger # {}

\* C6: Up idempotence.  A non-dry-run Up called right after a successful
\* non-dry-run Up, on the same directory, leaves the ledger and the schema as
\* that call left them at every step, and returns success.
C6_UpIdempotent ==
    \A p \in Procs :
        (op[p] = "Up" /\ ~dryRun[p] /\ hist[p].prev = "Up" /\ pc[p] # "idle")
        => ( /\ ledger = hist[p].before
             /\ schema = hist[p].before
             /\ Returned(p) => result[p] = "OK" )

\* C6 witness: the second of two successful Up calls has returned, the first
\* having applied the migrations.
C6_Witness ==
    \E p \in Procs :
        /\ Finished(p) /\ op[p] = "Up" /\ ~dryRun[p] /\ hist[p].prev = "Up"
        /\ result[p] = "OK"
        /\ ledger = LoadedVersions(dir) /\ ledger # {}

\* C7 (as claimed): a successful DownN(n) followed by a successful Up on the
\* same directory leaves the ledger equal to the ledger before DownN.
C7_RoundTripAnyLedger ==
    \A p \in Procs :
        ( /\ Finished(p) /\ op[p] = "Up" /\ ~dryRun[p] /\ result[p] = "OK"
          /\ hist[p].prev = "DownN" )
        => ledger = hist[p].before

\* C7 (amended): a successful DownN(n) followed by a successful Up on the
\* same directory leaves the ledger, and the schema, equal to the ledger
\* before DownN united with the loaded versions: the ledger before DownN is
\* restored exactly when it held every loaded version.
C7_RoundTrip ==
    \A p \in Procs :
        ( /\ Finished(p) /\ op[p] = "Up" /\ ~dryRun[p] /\ result[p] = "OK"
          /\ hist[p].prev = "DownN" )
        => ( /\ ledger = hist[p].before \cup LoadedVersions(dir)
             /\ schema = hist[p].before \cup LoadedVersions(dir)
             /\ (LoadedVersions(dir) \subseteq hist[p].before)
                    => ledger = hist[p].before )

\* C7 witness: DownN(n) has reverted n >= 1 migrations of a complete ledger
\* and the Up after it has returned success.
C7_Witness ==
    \E p \in Procs :
        /\ Finished(p) /\ op[p] = "Up" /\ ~dryRun[p] /\ result[p] = "OK"
        /\ hist[p].prev = "DownN"
        /\ hist[p].before = LoadedVersions(dir)
        /\ ledger = hist[p].before

\* C8 (as claimed): no step of a dry-run Up, Down or DownN changes the
\* ledger or creates or drops a schema object, the control table and the
\* lock table included.
C8_DryRunNoWrites ==
    [][ \A p \in Procs :
          (dryRun[p] /\ pc[p] \notin {"idle", "done"} /\ pc'[p] # pc[p])
          => UNCHANGED <<ledgerTable, ledger, schema, partial, lockTable, lockRow>>
      ]_vars

\* C9 (as claimed): a dry-run call is never at a position of Lock or Unlock
\* and never holds the lock, and a dry-run Up returns success whoever holds
\* the lock.
C9_DryRunIgnoresLock ==
    \A p \in Procs :
        dryRun[p] =>
          ( /\ ~locked[p]
            /\ pc[p] \notin {"lock", "sq_insert", "sq_update", "unlock", "sq_delete"}
            /\ sessionLock # p
            /\ writer # LockConn(p)
            /\ (Returned(p) /\ op[p] = "Up") => result[p] = "OK" )

\* C10: sequential result of Up.  The migration in the transaction of a
\* non-dry-run Up is always the lowest loaded version not in the ledger, and
\* when Up returns success the ledger is the ledger it read united with all
\* loaded versions.
C10_UpAppliesPendingAscending ==
    \A p \in Procs :
        /\ (op[p] = "Up" /\ pc[p] \in {"up_exec", "up_insert", "up_commit"})
           => ( /\ tx[p].version \in LoadedVersions(dir) \ ledger
                /\ \A v \in LoadedVersions(dir) \ ledger : tx[p].version <= v )
        /\ (Returned(p) /\ op[p] = "Up" /\ ~dryRun[p] /\ result[p] = "OK"
              /\ pc[p] # "idle")
           => ledger = SeqToSet(appliedVersions[p]) \cup LoadedVersions(dir)

\* C10 witness: Up has returned success after applying every loaded version
\* to an empty ledger.
C10_Witness ==
    \E p \in Procs :
        /\ Finished(p) /\ op[p] = "Up" /\ ~dryRun[p] /\ result[p] = "OK"
        /\ appliedVersions[p] = <<>>
        /\ Cardinality(LoadedVersions(dir)) > 1
        /\ ledger = LoadedVersions(dir)

\* The k highest versions of a finite set of versions.
Highest(S, k) ==
    {v \in S : Cardinality({w \in S : w > v}) < k}

\* C11: result of Down and DownN.  Every committing step of a revert removes
\* exactly the highest version of the ledger (and its schema effect), so the
\* versions go in descending order; a non-dry-run Down that returns success
\* has removed exactly that one version; a non-dry-run DownN(k) that returns
\* success leaves the ledger it read minus its k highest versions.
C11_DownRemovesHighest ==
    [][ \A p \in Procs :
          /\ (pc[p] = "down_commit" /\ ledger' # ledger)
             => ( /\ ledger # {}
                  /\ ledger' = ledger \ {Max(ledger)}
                  /\ schema' = schema \ {Max(ledger)} )
          /\ ( /\ op[p] = "Down" /\ ~dryRun[p] /\ pc[p] = "down_commit"
               /\ pc'[p] # pc[p] /\ result'[p] = "OK" )
             => (ledger # {} /\ ledger' = ledger \ {Max(ledger)})
          /\ ( /\ op[p] = "DownN" /\ ~dryRun[p] /\ pc[p] = "down_loop"
               /\ pc'[p] # pc[p] /\ pc'[p] # "down_exec" /\ result'[p] = "OK" )
             => ledger' = SeqToSet(appliedVersions[p])
                            \ Highest(SeqToSet(appliedVersions[p]), steps[p])
      ]_vars

\* C11 witness: on the three test migrations, with no failure, the third
\* call was DownN(2) on the ledger {1,2} and it has returned success,
\* leaving the ledger empty.
C11_Witness ==
    \E p \in Procs :
        /\ dir = SetupTestMigrations /\ faults = 0 /\ calls = 3
        /\ Finished(p) /\ op[p] = "DownN" /\ ~dryRun[p] /\ steps[p] = 2
        /\ result[p] = "OK"
        /\ appliedVersions[p] = <<1, 2>>
        /\ ledger = {} /\ schema = {}

\* The ledger `L` holds, of the loaded versions, exactly the lowest ones: it
\* is a prefix of the version-sorted sequence Load returns.
IsPrefix(L) ==
    /\ L \subseteq LoadedVersions(dir)
    /\ \A v \in L : \A w \in LoadedVersions(dir) : (w < v) => w \in L

\* C12: prefix invariant.  Starting from the empty ledger with a fixed
\* directory, before and after every step of every call (failed calls and
\* the commits inside a call included) the ledger is a prefix of the sorted
\* loaded versions, and a step that removes versions removes a contiguous
\* suffix of the ledger.
C12_PrefixInvariant ==
    [][ /\ IsPrefix(ledger) /\ IsPrefix(ledger')
        /\ (ledger' # ledger /\ ledger' \subseteq ledger)
           => \A v \in ledger \ ledger' : \A w \in ledger' : w < v
      ]_vars

\* C12 witness: DownN is between two of its commits, one version reverted
\* and more to go, the ledger a non-empty proper prefix.
C12_Witness ==
    \E p \in Procs :
        /\ op[p] = "DownN" /\ ~dryRun[p] /\ pc[p] = "down_loop"
        /\ idx[p] = 2 /\ steps[p] >= 2
        /\ ledger # {} /\ ledger # LoadedVersions(dir)
        /\ IsPrefix(ledger)

\* C13: DownN argument validation.  A call with steps <= 0 is a DownN that
\* has returned InvalidArgument at its entry, in dry-run and in real mode:
\* it is at no position of the lock or of the database, holds no lock and no
\* transaction, and the step of its entry changes neither the database nor
\* the lock.
C13_DownNInvalidSteps ==
    [][ /\ \A p \in Procs :
             (steps'[p] < 1)
             => ( /\ op'[p] = "DownN" /\ pc'[p] = "done"
                  /\ result'[p] = "InvalidArgument"
                  /\ ~locked'[p] /\ tx'[p] = NoTx
                  /\ sessionLock' # p
                  /\ writer' \notin {LockConn(p), RunConn(p)} )
        /\ (calls' # calls /\ \E p \in Procs : steps'[p] < 1)
             => UNCHANGED <<dbVars, lockVars>>
      ]_vars

\* C13 witness: on a non-empty ledger one process has called DownN with a
\* negative count in real mode and another DownN(0) in dry-run; both have
\* returned InvalidArgument.
C13_Witness ==
    \E p, q \in Procs :
        /\ Finished(p) /\ op[p] = "DownN" /\ ~dryRun[p] /\ steps[p] < 0
        /\ Finished(q) /\ op[q] = "DownN" /\ dryRun[q] /\ steps[q] = 0
        /\ result[p] = "InvalidArgument" /\ result[q] = "InvalidArgument"
        /\ ledger # {}

\* The positions of the revert loop of Down and DownN.
RevertPcs == {"down_loop", "down_exec", "down_delete", "down_commit"}

C16_NoRevertChangesNothing ==
    \A p \in Procs :
        ( /\ Returned(p) /\ steps[p] >= 1
          /\ result[p] \in {"NothingToRevert", "MissingRevertScript"} )
        => ( /\ tx[p] = NoTx
             /\ schema = ledger
             /\ (op[p] = "DownN") => ledger = SeqToSet(appliedVersions[p])
             /\ (op[p] = "Down" /\ result[p] = "NothingToRevert") => ledger = {}
             /\ (op[p] = "Down" /\ result[p] = "MissingRevertScript")
                    => (ledger # {} /\ errVersion[p] = Max(ledger)) )

\* C16 (amended): the failure is raised before the transaction of the
\* version it names.  Down, a dry-run DownN and a DownN that fails at its
\* first version leave ledger and schema as before the call; a DownN that
\* fails at a later version has reverted the versions above the one it
\* names, and only those.
C16_NoRevertBeforeItsTransaction ==
    \A p \in Procs :
        ( /\ Returned(p) /\ steps[p] >= 1
          /\ result[p] \in {"NothingToRevert", "MissingRevertScript"} )
        => ( /\ tx[p] = NoTx
             /\ schema = ledger
             /\ (op[p] = "DownN" /\ result[p] = "NothingToRevert")
                    => ledger = SeqToSet(appliedVersions[p])
             /\ (op[p] = "DownN" /\ result[p] = "MissingRevertScript")
                    => ( /\ errVersion[p] \in SeqToSet(appliedVersions[p])
                         /\ FileSQL(dir, errVersion[p], "down") = ""
                         /\ ledger = IF dryRun[p] THEN SeqToSet(appliedVersions[p])
                                     ELSE {v \in SeqToSet(appliedVersions[p]) :
                                             v <= errVersion[p]} )
             /\ (op[p] = "Down" /\ result[p] = "NothingToRevert") => ledger = {}
             /\ (op[p] = "Down" /\ result[p] = "MissingRevertScript")
                    => (ledger # {} /\ errVersion[p] = Max(ledger)) )

\* C16 witness: DownN(2) on the ledger {1,2,3}, version 2 without revert
\* script, has reverted version 3 and returned MissingRevertScript for 2.
C16_Witness ==
    \E p \in Procs :
        /\ Finished(p) /\ op[p] = "DownN" /\ ~dryRun[p] /\ steps[p] = 2
        /\ result[p] = "MissingRevertScript" /\ errVersion[p] = 2
        /\ appliedVersions[p] = <<1, 2, 3>>
        /\ ledger = {1, 2}

\* C17: lock released on every exit.  A process that is not inside a call
\* (it has not called yet, or its call has returned, its deferred Unlock
\* done) holds neither the session lock nor a write transaction, whatever
\* the call returned; so when no call is running the lock is free and the
\* next Lock gets it.
C17_LockReleasedOnExit ==
    /\ \A p \in Procs :
          (pc[p] \in {"idle", "done"})
          => ( /\ sessionLock # p
               /\ writer \notin {LockConn(p), RunConn(p)}
               /\ tx[p] = NoTx )
    /\ (\A p \in Procs : pc[p] \in {"idle", "done"})
          => (sessionLock = NoProc /\ writer = NoConn)

\* C17 witness: a non-dry-run call has returned a script, ledger or commit
\* error, and after it another process has acquired the lock and is inside
\* its protocol.
C17_Witness ==
    \E p, q \in Procs :
        /\ p # q
        /\ Finished(p) /\ ~dryRun[p]
        /\ result[p] \in {"ScriptExecutionFailed", "LedgerWriteFailed", "CommitFailed"}
        /\ InProtocol(q) /\ locked[q]

\* Process p's locker holds the lock: its session has the advisory or named
\* lock, or its transaction l.tx is the open write transaction.
HoldsLock(p) == sessionLock = p \/ writer = LockConn(p)

\* C18: release is safe and idempotent.  On each backend an Unlock on a
\* locker that does not hold the lock (Lock never called, Lock failed, or
\* Unlock called before) returns without changing the lock, the lock table,
\* the database or the locker; and an Unlock on a locker that holds the lock
\* has released it when it returns.
C18_UnlockSafeIdempotent ==
    [][ \A p \in Procs :
          /\ ( /\ pc[p] = "unlock" /\ pc'[p] # pc[p]
               /\ ~(locked[p] /\ HoldsLock(p)) )
             => ( /\ pc'[p] = "done"
                  /\ locked'[p] = locked[p]
                  /\ UNCHANGED <<dbVars, lockVars>> )
          /\ (pc[p] \in {"unlock", "sq_delete"} /\ pc'[p] = "done")
             => ~HoldsLock(p)'
          /\ (pc[p] \in {"idle", "done", "unlock"} /\ ~locked[p]) => ~HoldsLock(p)
      ]_vars

\* C18 witness: while the other process holds the lock, a locker has
\* returned from an Unlock called after an earlier Unlock.
C18_Witness ==
    \E p, q \in Procs :
        /\ p # q
        /\ pc[p] = "done" /\ hist[p].prev = "UnlockAgain"
        /\ pc[q] = "ensure" /\ locked[q] /\ HoldsLock(q)

\* C19: sentinel table empty between cycles.  Whenever no locker holds the
\* lock and none is between the Commit and the DELETE of its Unlock, the
\* migration_lock table has no row and no write transaction is open, so the
\* INSERT of the next Lock takes the lock.
C19_SentinelEmptyBetweenCycles ==
    (\A p \in Procs : ~HoldsLock(p) /\ pc[p] # "sq_delete")
    => (~lockRow /\ writer = NoConn)

\* C19 witness: on SQLite a locker has returned from the Unlock of its
\* second Lock/Unlock cycle, both Locks having succeeded, and the table is
\* there and empty.
C19_Witness ==
    \E p \in Procs :
        /\ backend = "sqlite3"
        /\ pc[p] = "done" /\ ~locked[p] /\ result[p] = "OK"
        /\ hist[p].prev = "Unlock" /\ hist[p].before = {1, 2}
        /\ lockTable /\ ~lockRow /\ writer = NoConn

\* The errors of a failed Lock, and the positions inside Lock.
LockErrors == {"LockUnavailable", "LockTimeout", "LockBusy"}


C21_CancelledAcquire ==
    [][ \A p \in Procs :
          /\ (ctxDone[p] /\ pc[p] \in LockPcs /\ pc'[p] \notin LockPcs)
             => ( /\ result'[p] = "Canceled"
                  /\ pc'[p] = "done"
                  /\ ~locked'[p]
                  /\ ~HoldsLock(p)' )
          /\ (result[p] = "Canceled" /\ pc[p] = "unlock" /\ pc'[p] # "unlock")
             => ( /\ pc'[p] = "done"
                  /\ ~locked'[p]
                  /\ UNCHANGED <<dbVars, lockVars>> )
          /\ (~ctxDone[p] /\ ctxDone'[p] /\ pc[p] \notin LockPcs)
             => ( /\ tx'[p] = tx[p] /\ pc'[p] = pc[p] /\ result'[p] = result[p]
                  /\ UNCHANGED dbVars )
          /\ (result'[p] = "Canceled") => (tx'[p] = NoTx /\ migrations'[p] = <<>>)
      ]_vars

\* C21 witness: the runner's context has ended and its migration transaction
\* is still open, with a script run in it, while the locker of the other
\* process has returned from the Unlock that followed a cancelled Lock.
C21_Witness ==
    /\ ctxDone[1] /\ tx[1] # NoTx /\ pc[1] \in {"up_insert", "up_commit"}
    /\ result[2] = "Canceled" /\ pc[2] = "done"
    /\ hist[2].prev = "UnlockUnlocked"

\* The result of the Load that process p called last.
Loaded(p) == pc[p] = "done" /\ hist[p].prev = "Load" /\ result[p] = "OK"

\* C22: loader output shape.  For every directory content Load returns one
\* Migration per distinct version among the files it loads, strictly
\* ascending by Version whatever the order of the file names; the up and
\* down files of a version are merged into that one entry, and a half with
\* no file is left empty.
C22_LoaderOutputShape ==
    \A p \in Procs :
      Loaded(p) =>
        LET ms == migrations[p]
            fs == {f \in dir : f.ext = "sql" /\ f.readable}
            vs == {Atoi(f) : f \in fs}
            Half(v, k) == {f.sql : f \in {g \in fs : Atoi(g) = v /\ g.kind = k}}
        IN  /\ Len(ms) = Cardinality(vs)
            /\ {ms[k].Version : k \in 1..Len(ms)} = vs
            /\ \A k \in 1..(Len(ms) - 1) : ms[k].Version < ms[k + 1].Version
            /\ \A k \in 1..Len(ms) :
                  /\ IF Half(ms[k].Version, "up") = {} THEN ms[k].UpSQL = ""
                     ELSE ms[k].UpSQL \in Half(ms[k].Version, "up")
                  /\ IF Half(ms[k].Version, "down") = {} THEN ms[k].DownSQL = ""
                     ELSE ms[k].DownSQL \in Half(ms[k].Version, "down")

\* C22 witness: Load has returned two migrations, the lower one with its
\* down half empty and the higher one with both halves, from a directory
\* whose file names are not in the order of the versions.
C22_Witness ==
    /\ Loaded(1) /\ Len(migrations[1]) = 2
    /\ migrations[1][1].UpSQL # "" /\ migrations[1][1].DownSQL = ""
    /\ migrations[1][2].UpSQL # "" /\ migrations[1][2].DownSQL # ""
    /\ \E f, g \in dir : f.name < g.name /\ f.version > g.version
                          /\ f.readable /\ g.readable /\ f.ext = "sql" /\ g.ext = "sql"
                          /\ f.token = "int" /\ g.token = "int"

\* C23: loader tolerance.  Load of a readable directory returns no error and
\* what it returns of the directory without its files that lack .sql and
\* without its files that cannot be read; the .sql files whose leading token
\* is not an integer all go into one entry of version 0; Load of a directory
\* that cannot be read returns an error and no migration.
C23_LoaderTolerance ==
    \A p \in Procs :
      (pc[p] = "done" /\ hist[p].prev = "Load") =>
        LET ms == migrations[p]
            fs == {f \in dir : f.ext = "sql" /\ f.readable}
        IN  IF dirReadable
            THEN /\ result[p] = "OK"
                 /\ ms = Load(fs)
                 /\ {ms[k].Version : k \in 1..Len(ms)} =
                      {f.version : f \in {g \in fs : g.token = "int"}}
                        \cup (IF \E f \in fs : f.token = "text" THEN {0} ELSE {})
                 /\ Cardinality({k \in 1..Len(ms) : ms[k].Version = 0}) <= 1
            ELSE result[p] = "IOFailure" /\ ms = <<>>

\* C23 witness: Load has returned the version-0 entry and one more from a
\* directory with two .sql files without an integer, a file without .sql and
\* a file that cannot be read.
C23_Witness ==
    /\ Loaded(1) /\ Len(migrations[1]) = 1
    /\ migrations[1][1].Version = 0
    /\ \E f, g, h \in dir :
          /\ f # g /\ f.token = "text" /\ g.token = "text"
          /\ f.ext = "sql" /\ g.ext = "sql" /\ f.readable /\ g.readable
          /\ (h.ext # "sql" \/ ~h.readable) /\ h.token = "int"

\* C24: unique versions from creation.  The versions of the successful
\* NewMigration calls increase from each call to the next, and a Load of the
\* directory they wrote returns one migration per call, in the order of the
\* calls, each with its up and its down file.
C24_UniqueVersions ==
    /\ \A i, j \in 1..Len(created) : (i < j) => created[i] < created[j]
    /\ \A p \in Procs :
          (Loaded(p) /\ migrations[p] = Load(dir)) =>
            /\ Len(migrations[p]) = Len(created)
            /\ Cardinality(dir) = 2 * Len(created)
            /\ \A k \in 1..Len(migrations[p]) :
                  /\ migrations[p][k].Version = created[k]
                  /\ migrations[p][k].UpSQL # ""
                  /\ migrations[p][k].DownSQL # ""

\* The errors of a migration that failed in its transaction.
StepErrors == {"ScriptExecutionFailed", "LedgerWriteFailed", "CommitFailed"}

\* What a failed non-dry-run Up of process p leaves: the pending versions
\* below the failing one committed, the failing one and those above it
\* neither in the ledger nor in the schema.
UpFailedAt(p) ==
    LET v    == errVersion[p]
        av   == SeqToSet(appliedVersions[p])
        pend == LoadedVersions(dir) \ av
    IN  /\ v \in pend
        /\ ledger = av \cup {w \in pend : w < v}
        /\ {w \in pend : w < v} \subseteq schema
        /\ v \notin schema /\ v \notin partial
        /\ \A w \in pend : (w > v) => (w \notin schema /\ w \notin partial)

\* C25 as stated: partial failure of Up.  When a pending migration of a
\* non-dry-run Up fails, those before it stay committed, the failing one
\* leaves no trace, those after it are not attempted, and the error Up
\* returns names the failing version.
C25_UpPartialFailureNamed ==
    \A p \in Procs :
        (Returned(p) /\ op[p] = "Up" /\ ~dryRun[p] /\ result[p] \in StepErrors)
        => (UpFailedAt(p) /\ NamesVersion(op[p], result[p]))

\* C25: partial failure of Up.  As above, with the error naming the failing
\* version when the script or the insert of the ledger row failed; the error
\* of a failed commit is returned as the driver gave it.
C25_UpPartialFailure ==
    \A p \in Procs :
        (Returned(p) /\ op[p] = "Up" /\ ~dryRun[p] /\ result[p] \in StepErrors)
        => ( /\ UpFailedAt(p)
             /\ NamesVersion(op[p], result[p]) <=> result[p] # "CommitFailed" )

\* C25 witness: Up has failed at version 2 of three pending versions, with
\* version 1 committed.
C25_Witness ==
    /\ Finished(1) /\ op[1] = "Up" /\ ~dryRun[1]
    /\ result[1] = "ScriptExecutionFailed" /\ errVersion[1] = 2
    /\ appliedVersions[1] = <<>>
    /\ ledger = {1} /\ LoadedVersions(dir) = {1, 2, 3}

\* C26: partial failure of DownN.  Each revert of DownN is its own
\* transaction: when the i-th revert, counted from the highest applied
\* version, fails (its script missing or failing, the delete of its row or
\* its commit failing), DownN returns with exactly the i-1 highest versions
\* out of the ledger and out of the schema, and with the failing version and
\* every lower one still in both; nothing is put back.
C26_DownNPartialFailure ==
    \A p \in Procs :
        ( /\ Returned(p) /\ op[p] = "DownN" /\ ~dryRun[p]
          /\ result[p] \in StepErrors \cup {"MissingRevertScript"} )
        => LET av      == SeqToSet(appliedVersions[p])
               removed == Highest(av, idx[p] - 1)
           IN  /\ idx[p] \in 1..steps[p]
               /\ errVersion[p] \in av \ removed
               /\ \A w \in av \ removed : w <= errVersion[p]
               /\ ledger = av \ removed
               /\ schema = av \ removed

\* C26 witness: DownN(3) on the ledger {1, 2, 3} has failed at its second
\* revert, that of version 2, and left the ledger {1, 2}.
C26_Witness ==
    /\ Finished(1) /\ op[1] = "DownN" /\ ~dryRun[1] /\ steps[1] = 3
    /\ result[1] \in StepErrors /\ errVersion[1] = 2 /\ idx[1] = 2
    /\ appliedVersions[1] = <<1, 2, 3>>
    /\ ledger = {1, 2} /\ schema = {1, 2}

\* C27: no out-of-order apply or revert when artifacts are added between
\* runs.  Every migration that Up commits has a version above all versions
\* of the ledger, and every revert that Down or DownN commits removes the row
\* with the latest applied_at.
C27_NoOutOfOrder ==
    [][ \A p \in Procs :
          /\ (pc[p] = "up_commit" /\ ledger' # ledger)
             => \A w \in ledger : w < tx[p].version
          /\ (pc[p] = "down_commit" /\ ledger' # ledger)
             => ledger \ ledger' = {appliedAt[Len(appliedAt)]}
      ]_vars

\* C28: an unreadable directory is reported as such.  When the directory
\* cannot be read, the Load of Up, of Down and of DownN, in dry-run and not,
\* makes the call return the I/O failure, told apart from NothingToRevert and
\* every other failure, with the ledger as it was.
C28_UnreadableDirectoryReported ==
    [][ \A p \in Procs :
          (pc[p] = "load" /\ ~dirReadable /\ pc'[p] # pc[p])
          => ( /\ result'[p] = "IOFailure"
               /\ pc'[p] \in {"unlock", "done"}
               /\ ledger' = ledger )
      ]_vars

\* C29: bounded acquire.  On every backend and whatever the holder does,
\* also when it never releases, a Lock call comes to its return; it returns
\* success or the error of a lock that is held, timed out or cancelled; it
\* has waited no longer than the deadline; and it returns success only when
\* no other locker holds the lock.
C29_BoundedAcquire ==
    /\ \A p \in Procs : (pc[p] \in LockPcs) ~> (pc[p] \notin LockPcs)
    /\ [][ \A p \in Procs :
              /\ (pc[p] \in LockPcs /\ pc'[p] \notin LockPcs)
                 => \/ locked'[p] /\ result'[p] = "OK"
                    \/ ~locked'[p] /\ result'[p] \in LockErrors \cup {"Canceled"}
              /\ (~locked[p] /\ locked'[p])
                 => \A q \in Procs \ {p} : ~HoldsLock(q)
          ]_vars
    /\ [](\A p \in Procs : waited[p] <= LockDeadlineSeconds)

\* C29 witness: on MySQL a rival has returned from Lock with the timeout
\* error while the other locker still holds the lock.
C29_Witness ==
    /\ backend = "mysql"
    /\ pc[2] = "done" /\ result[2] = "LockTimeout" /\ ~locked[2]
    /\ locked[1] /\ HoldsLock(1)

\* C30: the configured timeout reaches the native primitive.  On MySQL a
\* Lock of the runner that fails because the lock stayed held has waited in
\* GET_LOCK for the whole deadline the runner set, 30 seconds.
C30_TimeoutReachesPrimitive ==
    [][ \A p \in Procs :
          (backend = "mysql" /\ pc[p] = "lock" /\ result'[p] = "LockTimeout")
          => waited[p] = LockDeadlineSeconds
      ]_vars

\* C31: no double lock on one locker.  Lock on a locker that holds the lock
\* returns "ya esta bloqueado" at once, with the lock, the locker and the
\* database as they were; and the Unlock after it has released the lock when
\* it returns.
C31_NoDoubleLock ==
    [][ \A p \in Procs :
          /\ (locked[p] /\ HoldsLock(p) /\ TestLock(p))
             => ( /\ result'[p] = "AlreadyLocked"
                  /\ pc'[p] = pc[p]
                  /\ locked'[p] /\ HoldsLock(p)'
                  /\ UNCHANGED <<dbVars, lockVars>> )
          /\ ( /\ result[p] = "AlreadyLocked" /\ hist[p].prev = "Unlock"
               /\ pc[p] \in {"unlock", "sq_delete"} /\ pc'[p] = "done" )
             => ~HoldsLock(p)'
      ]_vars

\* C31 witness: on Postgres a locker that refused a second Lock has returned
\* from the one Unlock after it, and the lock is free.
C31_Witness ==
    \E p \in Procs :
        /\ backend = "postgres"
        /\ result[p] = "AlreadyLocked" /\ hist[p].prev = "Unlock" /\ pc[p] = "done"
        /\ ~locked[p] /\ sessionLock = NoProc /\ writer = NoConn

\* What ensure and last do at their steps: ensure keeps the rows of the
\* ledger and an existing control table; last fails exactly on the empty
\* ledger and otherwise gives its highest version, the one Down goes on with.
EnsureAndLast(p) ==
    /\ (pc[p] = "ensure" /\ pc'[p] # pc[p])
       => ( /\ ledger' = ledger /\ appliedAt' = appliedAt /\ schema' = schema
            /\ ledgerTable => ledgerTable' )
    /\ (pc[p] = "last" /\ pc'[p] # pc[p])
       => ( /\ (result'[p] = "NothingToRevert") <=> (ledger = {})
            /\ (ledger # {} /\ ~dryRun[p])
               => LET v == IF tx'[p] # NoTx THEN tx'[p].version ELSE errVersion'[p]
                  IN  v \in ledger /\ \A w \in ledger : w <= v )

\* The list that applied has returned is the ledger, ascending.
AppliedAscending(p) ==
    LET av == appliedVersions'[p]
    IN  /\ result'[p] # "DatabaseError"
        /\ SeqToSet(av) = ledger /\ Len(av) = Cardinality(ledger)
        /\ \A i, j \in 1..Len(av) : (i < j) => av[i] < av[j]

\* C32: state ledger operations.  ensure never removes or changes
\* a row; applied returns all recorded versions ascending, the empty list
\* when there is none; last returns the highest version and fails exactly
\* when the ledger is empty.
C32_LedgerOperations ==
    [][ \A p \in Procs :
          /\ EnsureAndLast(p)
          /\ (pc[p] = "applied" /\ pc'[p] # pc[p]) => AppliedAscending(p)
      ]_vars

\* C33: ledger writes only under the lock.  In a call that is not a dry run,
\* the commit that puts a row into the ledger or takes one out is made by a
\* process that holds the lock, from a transaction that holds the effect of
\* the script of the same version; and applied and last are read while the
\* process holds the lock.
C33_LedgerWritesUnderLock ==
    [][ \A p \in Procs :
          /\ (pc[p] \in {"up_commit", "down_commit"} /\ ledger' # ledger)
             => ( /\ locked[p] /\ HoldsLock(p)
                  /\ tx[p].ledgerAdd \subseteq tx[p].schemaAdd
                  /\ tx[p].ledgerDel \subseteq tx[p].schemaDel )
          /\ (~dryRun[p] /\ pc[p] \in {"applied", "last"} /\ pc'[p] # pc[p])
             => (locked[p] /\ HoldsLock(p))
      ]_vars

\* C34: Down is DownN(1).  From one database and one directory, with no
\* engine failure in either call, Down(db, dir, d) and DownN(db, dir, 1, d)
\* both return nil or both return an error, and leave the same ledger, the
\* same schema and the same control table; in dry-run both leave the
\* database as it was.
C34_DownIsDownN1 ==
    \A p \in Procs :
       (saved.phase = "DownN" /\ pc[p] = "done" /\ op[p] = "DownN"
          /\ faults = saved.faults)
       => /\ (result[p] = "OK") <=> (saved.result = "OK")
          /\ dbVars = saved.after

\* Both calls reverted the highest version of a ledger of several.
C34_Witness ==
    \E p \in Procs :
       /\ saved.phase = "DownN" /\ pc[p] = "done" /\ op[p] = "DownN"
       /\ faults = saved.faults /\ ~saved.dry
       /\ result[p] = "OK" /\ saved.result = "OK"
       /\ ledger # {} /\ dbVars = saved.after

\* C35: a crashed holder does not block forever.  When a process has stopped
\* at any point between the start of its Lock and the end of its Unlock, a
\* Lock that another process issues afterwards returns, and unless a running
\* process holds the lock it succeeds: it returns nil and that process holds
\* the lock, also when the stopped process left the sentinel row behind.
C35_CrashedHolderDoesNotBlock ==
    /\ \A q \in Procs \ {1} :
          (pc[1] = "crashed" /\ pc[q] = "lock") ~> (pc[q] \notin LockPcs)
    /\ [][ \A q \in Procs \ {1} :
             ( /\ pc[1] = "crashed" /\ pc[q] \in LockPcs /\ pc'[q] \notin LockPcs
               /\ \A r \in Procs \ {1, q} : ~HoldsLock(r) )
             => (locked'[q] /\ result'[q] = "OK" /\ HoldsLock(q)') ]_vars

\* The first process stopped after the commit of its Unlock and before the
\* DELETE; the sentinel row is there and the second process holds the lock.
C35_Witness ==
    /\ backend = "sqlite3" /\ pc[1] = "crashed" /\ lockRow
    /\ hist[2].prev = "Lock" /\ result[2] = "OK" /\ locked[2] /\ HoldsLock(2)

\* The file of version v and kind k that comes last in the order of the
\* file names, among the files Load reads.
LastFile(v, k) ==
    LET fs == {f \in Loadable(dir) : Atoi(f) = v /\ f.kind = k}
    IN  CHOOSE f \in fs : \A g \in fs : g.name <= f.name

C37_RejectedCreationNoEffect ==
    [][ \A p \in Procs :
          (NewMigration(p) /\ result'[p] = "InvalidArgument")
             => UNCHANGED <<dir, dirExists, created>>
      ]_vars

\* C38: the locker's flag agrees with the native lock.  Between the calls on
\* a locker, whatever Lock and Unlock calls came before and however they
\* ended, its locked flag is true exactly when its connection or transaction
\* owns the lock.
C38_FlagAgreesWithLock ==
    \A p \in Procs :
       (pc[p] \notin LockPcs \cup {"unlock", "sq_delete"})
          => (locked[p] <=> HoldsLock(p))

====
